---- MODULE Spec2Model ----
(***************************************************************************)
(* Model of the patch scripts of the repository.  File contents, checker   *)
(* output and find/replace strings are sequences of one-character strings; *)
(* the file system maps a path to [exists, text].                          *)
(***************************************************************************)
EXTENDS Integers, Sequences, FiniteSets, TLC

VARIABLES
    fs,          \* the file system: path -> [exists : BOOLEAN, text : chars]
    script,      \* which script is running
    pc,          \* position of the running script
    raised,      \* "none", or the exception that ended the run
    fixed,       \* the script's counter `fixed`
    writes,      \* history: every write_text call, <<[path, text, before]>>
    result_stdout, \* final_cleanup: result.stdout of the checker run
    result_stderr, \* final_cleanup: result.stderr of the checker run
    errors,      \* final_cleanup: list of (file, line)
    by_file,     \* final_cleanup: ordered dict, <<[file, line_nums]>>
    file_path,   \* final_cleanup: key of the current by_file item (<<>> before the loop)
    line_nums,   \* final_cleanup: value of the current by_file item
    lines,       \* the in-memory line list of the current step
    todo,        \* final_cleanup: what is left of sorted(set(line_nums), reverse=True)
    content,     \* the text the current step read (list helpers: the variable `content`)
    inserted,    \* history: the line numbers at which the current pass inserted, in order
    ret,         \* helper scripts: what the last helper call returned / did
    printed,     \* what the script printed, <<[what, ...]>>
    env,         \* history: what the environment did, <<[kind, path, text]>>
    run          \* the number of the run of the script over the tree

vars == <<fs, script, pc, raised, fixed, writes, result_stdout, result_stderr,
          errors, by_file, file_path, line_nums, lines, todo, content, inserted, ret,
          printed, env, run>>

\* what a step leaves alone unless it prints, fails or starts a run
obsVars == <<printed, env, run>>

-----------------------------------------------------------------------------
(* Bounds of the model *)

MaxLines == 2
MaxDiags == 2
MaxLineNo == 3
MaxPathLen == 2

-----------------------------------------------------------------------------
(* Characters and strings *)

NL == "\n"

Marker == <<"/", "/", "@", "t", "s", "-", "e", "x", "p", "e", "c", "t", "-", "e", "r", "r", "o", "r">>

SrcPrefix == <<"s", "r", "c", "/">>

Whitespace == {" ", "\t", "\r", "\f"}

DigitChars == <<"0", "1", "2", "3", "4", "5", "6", "7", "8", "9">>

IsDigit(c) == \E i \in 1..10 : DigitChars[i] = c

DigitVal(c) == (CHOOSE i \in 1..10 : DigitChars[i] = c) - 1

Max(a, b) == IF a >= b THEN a ELSE b

Last(s) == s[Len(s)]

Spaces(n) == [i \in 1..n |-> " "]

StartsWithAt(s, i, sub) ==
    /\ i >= 1
    /\ i + Len(sub) - 1 <= Len(s)
    /\ \A k \in 1..Len(sub) : s[i + k - 1] = sub[k]

StartsWith(s, sub) == StartsWithAt(s, 1, sub)

\* Python's `sub in s` for strings
Contains(s, sub) == \E i \in 1..(Len(s) - Len(sub) + 1) : StartsWithAt(s, i, sub)

\* Python's `x in lst` for a list of strings: equality with an element
InList(lst, x) == \E i \in 1..Len(lst) : lst[i] = x

\* len(s) - len(s.lstrip())
RECURSIVE LeadingWhitespace(_)
LeadingWhitespace(s) ==
    IF s = <<>> \/ s[1] \notin Whitespace THEN 0 ELSE 1 + LeadingWhitespace(Tail(s))

\* text.split('\n') of the characters a..b of t: the pieces between the
\* newlines, found by halving at some newline (one near the middle)
RECURSIVE SplitFrom(_, _, _)
SplitFrom(t, a, b) ==
    IF \A k \in a..b : t[k] # NL THEN <<SubSeq(t, a, b)>>
    ELSE LET mid == (a + b) \div 2
             IsNL(k) == k \in a..b /\ t[k] = NL
             d == CHOOSE e \in 0..(b - a) : IsNL(mid - e) \/ IsNL(mid + e)
             n == IF IsNL(mid - d) THEN mid - d ELSE mid + d
         IN  SplitFrom(t, a, n - 1) \o SplitFrom(t, n + 1, b)

SplitLines(t) == SplitFrom(t, 1, Len(t))

\* '\n'.join(ls), by halves
RECURSIVE JoinLines(_)
JoinLines(ls) ==
    IF ls = <<>> THEN <<>>
    ELSE IF Len(ls) = 1 THEN ls[1]
    ELSE LET h == Len(ls) \div 2
         IN  JoinLines(SubSeq(ls, 1, h)) \o <<NL>> \o JoinLines(SubSeq(ls, h + 1, Len(ls)))

\* lst.insert(i, x) with a 0-based index 0 <= i <= len(lst)
ListInsert(lst, i, x) == SubSeq(lst, 1, i) \o <<x>> \o SubSeq(lst, i + 1, Len(lst))

\* int(digits)
RECURSIVE ParseInt(_)
ParseInt(ds) ==
    IF ds = <<>> THEN 0 ELSE 10 * ParseInt(SubSeq(ds, 1, Len(ds) - 1)) + DigitVal(Last(ds))

\* str(n) for n >= 0
RECURSIVE Digits(_)
Digits(n) == IF n < 10 THEN <<DigitChars[n + 1]>> ELSE Digits(n \div 10) \o <<DigitChars[(n % 10) + 1]>>

\* sorted(set(s), reverse=True)
RECURSIVE DescendingOf(_)
DescendingOf(S) ==
    IF S = {} THEN <<>>
    ELSE LET m == CHOOSE x \in S : \A y \in S : y <= x
         IN  <<m>> \o DescendingOf(S \ {m})

Range(s) == {s[i] : i \in 1..Len(s)}

\* faulty variant: sorted(set(s)), ascending
RECURSIVE AscendingOf(_)
AscendingOf(S) ==
    IF S = {} THEN <<>>
    ELSE LET m == CHOOSE x \in S : \A y \in S : x <= y
         IN  <<m>> \o AscendingOf(S \ {m})

SortedSetAscending(s) == AscendingOf(Range(s))

\* faulty variant: sorted(s, reverse=True), the repeats kept
RECURSIVE SortedReversedWithRepeats(_)
SortedReversedWithRepeats(s) ==
    IF s = <<>> THEN <<>>
    ELSE LET i == CHOOSE k \in 1..Len(s) : \A j \in 1..Len(s) : s[j] <= s[k]
         IN  <<s[i]>> \o SortedReversedWithRepeats(SubSeq(s, 1, i - 1) \o SubSeq(s, i + 1, Len(s)))

SortedSetReversed(s) == DescendingOf(Range(s))

-----------------------------------------------------------------------------
(* The file system *)

Absent == [exists |-> FALSE, text |-> <<>>]

File(t) == [exists |-> TRUE, text |-> t]

PathA == SrcPrefix \o <<"a">>
PathB == SrcPrefix \o <<"b">>

Paths == {PathA, PathB}

WriteText(path, t) == [fs EXCEPT ![path] = File(t)]

WriteEvent(path, t) == [path |-> path, text |-> t, before |-> fs[path].text]

-----------------------------------------------------------------------------
(* final_cleanup.py *)

\* re.match(r'(src/[^(]+)\((\d+),', line) behind line.startswith('src/'):
\* the tuple appended to errors, or nothing
ParseLine(line) ==
    IF ~StartsWith(line, SrcPrefix) THEN <<>>
    ELSE LET opens == {k \in 5..Len(line) : line[k] = "("} IN
         IF opens = {} THEN <<>>
         ELSE LET p == CHOOSE k \in opens : \A j \in opens : k <= j
                  nondig == {k \in (p + 1)..Len(line) : ~IsDigit(line[k])}
              IN  IF p < 6 \/ nondig = {} THEN <<>>
                  ELSE LET q == CHOOSE k \in nondig : \A j \in nondig : k <= j
                       IN  IF q = p + 1 \/ line[q] # "," THEN <<>>
                           ELSE << <<SubSeq(line, 1, p - 1),
                                     ParseInt(SubSeq(line, p + 1, q - 1))>> >>

RECURSIVE ParseAll(_)
ParseAll(ls) == IF ls = <<>> THEN <<>> ELSE ParseLine(Head(ls)) \o ParseAll(Tail(ls))

\* lines 14-19
ParseErrors ==
    /\ script = "final_cleanup" /\ pc = "parse"
    /\ errors' = ParseAll(SplitLines(result_stderr))
    /\ pc' = "group"
    /\ UNCHANGED <<obsVars, fs, script, raised, fixed, writes, result_stdout, result_stderr,
                   by_file, file_path, line_nums, lines, todo, content, inserted, ret>>

\* faulty variant of Append2: one list of line numbers shared by all files
Append2Shared(bf, file, line) ==
    LET base == IF \E i \in 1..Len(bf) : bf[i].file = file
                THEN bf
                ELSE Append(bf, [file |-> file,
                                 line_nums |-> IF bf = <<>> THEN <<>> ELSE bf[1].line_nums])
    IN  [i \in 1..Len(base) |-> [base[i] EXCEPT !.line_nums = Append(@, line)]]

\* by_file[file].append(line) on a defaultdict(list) that keeps insertion order
Append2(bf, file, line) ==
    IF \E i \in 1..Len(bf) : bf[i].file = file
    THEN [i \in 1..Len(bf) |->
            IF bf[i].file = file
            THEN [bf[i] EXCEPT !.line_nums = Append(bf[i].line_nums, line)]
            ELSE bf[i]]
    ELSE Append(bf, [file |-> file, line_nums |-> <<line>>])

RECURSIVE GroupInto(_, _)
GroupInto(bf, es) ==
    IF es = <<>> THEN bf ELSE GroupInto(Append2(bf, Head(es)[1], Head(es)[2]), Tail(es))

\* lines 21-25
GroupByFile ==
    /\ script = "final_cleanup" /\ pc = "group"
    /\ by_file' = GroupInto(<<>>, errors)
    /\ pc' = "loop"
    /\ UNCHANGED <<obsVars, fs, script, raised, fixed, writes, result_stdout, result_stderr,
                   errors, file_path, line_nums, lines, todo, content, inserted, ret>>

\* path.exists()
Exists(path) == path \in DOMAIN fs /\ fs[path].exists

\* lines 29-32: the next item of by_file, whose file does not exist
SkipMissing ==
    /\ script = "final_cleanup" /\ pc = "loop" /\ by_file # <<>>
    /\ ~Exists(Head(by_file).file)
    /\ file_path' = Head(by_file).file
    /\ line_nums' = Head(by_file).line_nums
    /\ by_file' = Tail(by_file)
    /\ UNCHANGED <<obsVars, fs, script, pc, raised, fixed, writes, result_stdout, result_stderr,
                   errors, lines, todo, content, inserted, ret>>

\* lines 29-37: the next item of by_file, read and split
ReadLines ==
    /\ script = "final_cleanup" /\ pc = "loop" /\ by_file # <<>>
    /\ Exists(Head(by_file).file)
    /\ file_path' = Head(by_file).file
    /\ line_nums' = Head(by_file).line_nums
    /\ by_file' = Tail(by_file)
    /\ content' = fs[Head(by_file).file].text
    /\ lines' = SplitLines(fs[Head(by_file).file].text)
    /\ todo' = SortedSetReversed(Head(by_file).line_nums)
    /\ inserted' = <<>>
    /\ pc' = "insert"
    /\ UNCHANGED <<obsVars, fs, script, raised, fixed, writes, result_stdout, result_stderr,
                   errors, ret>>

\* line 38
InBounds(ls, line_num) == line_num > 0 /\ line_num <= Len(ls)

\* faulty variant of GuardPasses: only the preceding line is looked at
GuardPassesPrecedingOnly(ls, line_num) ==
    ~InList(SubSeq(ls, Max(0, line_num - 2) + 1, line_num - 1), Marker)

\* line 41: '//@ts-expect-error' not in lines[max(0, line_num - 2):line_num]
GuardPasses(ls, line_num) ==
    ~InList(SubSeq(ls, Max(0, line_num - 2) + 1, line_num), Marker)

\* lines 39-40
Suppression(ls, line_num) == Spaces(LeadingWhitespace(ls[line_num])) \o Marker

\* lines 37-43: one iteration of the loop over the line numbers
InsertStep ==
    /\ script = "final_cleanup" /\ pc = "insert" /\ todo # <<>>
    /\ LET line_num == Head(todo) IN
       IF InBounds(lines, line_num) /\ GuardPasses(lines, line_num)
       THEN /\ lines' = ListInsert(lines, line_num - 1, Suppression(lines, line_num))
            /\ fixed' = fixed + 1
            /\ inserted' = Append(inserted, line_num)
       ELSE UNCHANGED <<lines, fixed, inserted>>
    /\ todo' = Tail(todo)
    /\ UNCHANGED <<obsVars, fs, script, pc, raised, writes, result_stdout, result_stderr,
                   errors, by_file, file_path, line_nums, content, ret>>

\* lines 37-43 as a function: the list after the loop over the line numbers nums
RECURSIVE InsertAll(_, _)
InsertAll(ls, nums) ==
    IF nums = <<>> THEN ls
    ELSE LET line_num == Head(nums)
         IN  InsertAll(IF InBounds(ls, line_num) /\ GuardPasses(ls, line_num)
                       THEN ListInsert(ls, line_num - 1, Suppression(ls, line_num))
                       ELSE ls,
                       Tail(nums))

\* lines 34-45 as a function: the text written for a file of content text
\* with the diagnostic line numbers nums
PassText(text, nums) == JoinLines(InsertAll(SplitLines(text), SortedSetReversed(nums)))

\* faulty variant of WriteLines: the pass is redone on the content the file
\* has at the time of the write
WriteLinesOnCurrent ==
    /\ script = "final_cleanup" /\ pc = "insert" /\ todo = <<>>
    /\ LET new_text == PassText(fs[file_path].text, line_nums)
       IN  /\ fs' = WriteText(file_path, new_text)
           /\ writes' = Append(writes, WriteEvent(file_path, new_text))
    /\ pc' = "loop"
    /\ UNCHANGED <<obsVars, script, raised, fixed, result_stdout, result_stderr,
                   errors, by_file, file_path, line_nums, lines, todo, content, inserted, ret>>

\* line 45
WriteLines ==
    /\ script = "final_cleanup" /\ pc = "insert" /\ todo = <<>>
    /\ LET new_text == JoinLines(lines)
       IN  /\ fs' = WriteText(file_path, new_text)
           /\ writes' = Append(writes, WriteEvent(file_path, new_text))
    /\ pc' = "loop"
    /\ UNCHANGED <<obsVars, script, raised, fixed, result_stdout, result_stderr,
                   errors, by_file, file_path, line_nums, lines, todo, content, inserted, ret>>

\* a line of the script's output: what it says, about which file, with which count
Printed(what, path, count) == [what |-> what, path |-> path, count |-> count]

\* line 47
PrintSummary ==
    /\ script = "final_cleanup" /\ pc = "loop" /\ by_file = <<>>
    /\ pc' = "done"
    /\ printed' = Append(printed, Printed("Added error suppressions", <<>>, fixed))
    /\ UNCHANGED <<env, run, fs, script, raised, fixed, writes, result_stdout, result_stderr,
                   errors, by_file, file_path, line_nums, lines, todo, content, inserted, ret>>

FinalCleanup ==
    \/ ParseErrors
    \/ GroupByFile
    \/ SkipMissing
    \/ ReadLines
    \/ InsertStep
    \/ WriteLines
    \/ PrintSummary

-----------------------------------------------------------------------------
(* Initial states of final_cleanup.py *)

\* one line of the checker's output: <path>(<line>,<column>): <message>
DiagLine(path, n) == path \o <<"(">> \o Digits(n) \o <<",", "7", ")", ":", " ", "e">>

RECURSIVE SeqsUpTo(_, _)
SeqsUpTo(S, n) ==
    IF n = 0 THEN {<<>>}
    ELSE LET shorter == SeqsUpTo(S, n - 1)
         IN  shorter \cup {Append(s, x) : s \in {t \in shorter : Len(t) = n - 1}, x \in S}

\* the output text of the lines ls, each ended by a newline
RECURSIVE OutputOf(_)
OutputOf(ls) == IF ls = <<>> THEN <<>> ELSE Head(ls) \o <<NL>> \o OutputOf(Tail(ls))

LinePool == {<<" ", "\t", "x">>, Marker, <<" ", " ">> \o Marker}

Texts == {JoinLines(ls) \o tail :
            ls \in SeqsUpTo(LinePool, MaxLines) \ {<<>>}, tail \in {<<>>, <<NL>>}}

InitVarsFinalCleanup ==
    /\ script = "final_cleanup"
    /\ pc = "parse"
    /\ raised = "none"
    /\ fixed = 0
    /\ writes = <<>>
    /\ result_stdout = <<>>
    /\ errors = <<>>
    /\ by_file = <<>>
    /\ file_path = <<>>
    /\ line_nums = <<>>
    /\ lines = <<>>
    /\ todo = <<>>
    /\ content = <<>>
    /\ inserted = <<>>
    /\ ret = "none"
    /\ printed = <<>>
    /\ env = <<>>
    /\ run = 1

\* the file a has any small text; the file b is missing or holds one line;
\* the diagnostics of a are any short list of line numbers, those of b come
\* before or after them
Init ==
    /\ InitVarsFinalCleanup
    /\ \E ta \in Texts, fb \in {Absent, File(<<"x", NL>>)} :
          fs = [p \in Paths |-> IF p = PathA THEN File(ta) ELSE fb]
    /\ \E ns \in SeqsUpTo(0..MaxLineNo, MaxDiags), b \in {"none", "first", "last"} :
          LET da == [i \in 1..Len(ns) |-> DiagLine(PathA, ns[i])]
              db == <<DiagLine(PathB, 1)>>
          IN  result_stderr = OutputOf(CASE b = "none" -> da
                                         [] b = "first" -> db \o da
                                         [] b = "last" -> da \o db)

Next == FinalCleanup

Spec == Init /\ [][Next]_vars

\* a text of n distinct lines, line i indented by i % 3 spaces; with
\* marked > 0 the line `marked` is exactly the marker
BigLine(i) == Spaces(i % 3) \o <<"L">> \o Digits(i)

BigText(n, marked, tail) ==
    JoinLines([i \in 1..n |-> IF i = marked THEN Marker ELSE BigLine(i)]) \o tail

BigDiags == {<<12, 47, 47, 5>>, <<47, 5, 12, 47>>, <<5, 12, 47>>, <<12, 48, 5, 0>>}

\* the file a is a large file, its diagnostics one of a few lists
InitBig ==
    /\ InitVarsFinalCleanup
    /\ \E n \in {46, 47, 60}, marked \in {0, 11}, tail \in {<<>>, <<NL>>},
          fb \in {Absent, File(<<"x", NL>>)} :
          fs = [p \in Paths |-> IF p = PathA THEN File(BigText(n, marked, tail)) ELSE fb]
    /\ \E ns \in BigDiags, b \in {"none", "first", "last"} :
          LET da == [i \in 1..Len(ns) |-> DiagLine(PathA, ns[i])]
              db == <<DiagLine(PathB, 1)>>
          IN  result_stderr = OutputOf(CASE b = "none" -> da
                                         [] b = "first" -> db \o da
                                         [] b = "last" -> da \o db)

SpecBig == InitBig /\ [][Next]_vars

\* the checker writes its diagnostics on standard output, on standard error,
\* or some on each; a and b are as in Init
InitStreams ==
    /\ script = "final_cleanup"
    /\ pc = "parse"
    /\ raised = "none"
    /\ fixed = 0
    /\ writes = <<>>
    /\ errors = <<>>
    /\ by_file = <<>>
    /\ file_path = <<>>
    /\ line_nums = <<>>
    /\ lines = <<>>
    /\ todo = <<>>
    /\ content = <<>>
    /\ inserted = <<>>
    /\ ret = "none"
    /\ printed = <<>>
    /\ env = <<>>
    /\ run = 1
    /\ \E ta \in {<<" ", "x", NL, "y">>, <<"x">>}, fb \in {Absent, File(<<"x", NL>>)} :
          fs = [p \in Paths |-> IF p = PathA THEN File(ta) ELSE fb]
    /\ \E ns_out \in SeqsUpTo(1..MaxLineNo, MaxDiags), ns_err \in SeqsUpTo(1..MaxLineNo, MaxDiags),
          b \in {"none", "stdout", "stderr"} :
          LET on_out == [i \in 1..Len(ns_out) |-> DiagLine(PathA, ns_out[i])]
              on_err == [i \in 1..Len(ns_err) |-> DiagLine(PathA, ns_err[i])]
              db == <<DiagLine(PathB, 1)>>
          IN  /\ result_stdout = OutputOf(IF b = "stdout" THEN on_out \o db ELSE on_out)
              /\ result_stderr = OutputOf(IF b = "stderr" THEN on_err \o db ELSE on_err)

SpecStreams == InitStreams /\ [][Next]_vars

\* output lines of the checker, well formed or not: a prefix, a few path
\* characters and a tail
OutPrefixes == {SrcPrefix, <<"l", "i", "b", "/">>, <<>>}

OutTails ==
    { <<"(", "1", ",", "7", ")", ":", " ", "e">>,
      <<"(", "1", "2", ",", "7", ")", ":", " ", "e">>,
      <<"(", "1", ",">>,
      <<"(", "1">>,
      <<"(", ",", "7", ")", ":", " ", "e">>,
      <<"(", "1", " ", ",", "7", ")", ":", " ", "e">>,
      <<"(", "1", ",", "7", ")">>,
      <<":", " ", "e">>,
      <<>> }

OutLines ==
    {pre \o body \o tail :
        pre \in OutPrefixes, body \in SeqsUpTo({"a", "(", ")", "1"}, MaxPathLen), tail \in OutTails}

\* the checker's output is one line of OutLines, alone or followed by a
\* diagnostic of the file a or of the file b; a and b are as in Init
InitParse ==
    /\ InitVarsFinalCleanup
    /\ \E fb \in {Absent, File(<<"x", NL>>)} :
          fs = [p \in Paths |-> IF p = PathA THEN File(<<" ", "x", NL, "y">>) ELSE fb]
    /\ \E l \in OutLines, more \in {<<>>, <<DiagLine(PathA, 1)>>, <<DiagLine(PathB, 2)>>} :
          result_stderr = OutputOf(<<l>> \o more)

SpecParse == InitParse /\ [][Next]_vars

-----------------------------------------------------------------------------
(* final_cleanup.py when a read or a write of the file system fails.  The    *)
(* loop of lines 29-45 has no try/except: the exception of read_text or of   *)
(* write_text ends the script.                                               *)

\* what the environment did
EnvEvent(kind, path, text) == [kind |-> kind, path |-> path, text |-> text]

\* line 34: read_text raises (permission, encoding)
ReadLinesFails ==
    /\ script = "final_cleanup" /\ pc = "loop" /\ by_file # <<>>
    /\ Exists(Head(by_file).file)
    /\ \E exc \in {"PermissionError", "UnicodeDecodeError"} : raised' = exc
    /\ file_path' = Head(by_file).file
    /\ line_nums' = Head(by_file).line_nums
    /\ by_file' = Tail(by_file)
    /\ env' = Append(env, EnvEvent("read_failed", Head(by_file).file, <<>>))
    /\ pc' = "aborted"
    /\ UNCHANGED <<fs, script, fixed, writes, result_stdout, result_stderr, errors,
                   lines, todo, content, inserted, ret, printed, run>>

\* line 45: write_text raises; open(path, 'w') fails and the file is what it
\* was (permission), or the file was truncated and the data did not reach the
\* disk (disk full)
WriteLinesFails ==
    /\ script = "final_cleanup" /\ pc = "insert" /\ todo = <<>>
    /\ \E exc \in {"PermissionError", "OSError"} :
          /\ raised' = exc
          /\ fs' = IF exc = "OSError" THEN WriteText(file_path, <<>>) ELSE fs
    /\ env' = Append(env, EnvEvent("write_failed", file_path, JoinLines(lines)))
    /\ pc' = "aborted"
    /\ UNCHANGED <<script, fixed, writes, result_stdout, result_stderr, errors, by_file,
                   file_path, line_nums, lines, todo, content, inserted, ret, printed, run>>

NextIO == FinalCleanup \/ ReadLinesFails \/ WriteLinesFails

SpecIO == Init /\ [][NextIO]_vars

-----------------------------------------------------------------------------
(* final_cleanup.py while another run of the script works on the same tree:  *)
(* between the read and the write of a file by this run, the other run       *)
(* writes the file with the result of its own pass.                          *)

\* the other run's write_text (line 45 of the other process), once per file:
\* it read the file as it is now and has diagnostics of its own
OtherRunWrites ==
    /\ script = "final_cleanup" /\ pc = "insert"
    /\ \A i \in 1..Len(env) : env[i].path # file_path
    /\ \E n \in 0..MaxLineNo :
          LET new_text == PassText(fs[file_path].text, <<n>>)
          IN  /\ fs' = WriteText(file_path, new_text)
              /\ env' = Append(env, EnvEvent("other_run_write", file_path, new_text))
    /\ UNCHANGED <<script, pc, raised, fixed, writes, result_stdout, result_stderr, errors,
                   by_file, file_path, line_nums, lines, todo, content, inserted, ret,
                   printed, run>>

\* the file a has any small text and any short list of diagnostics; the file
\* b is missing, with a diagnostic before those of a or with none
InitConcurrent ==
    /\ InitVarsFinalCleanup
    /\ \E ta \in Texts : fs = [p \in Paths |-> IF p = PathA THEN File(ta) ELSE Absent]
    /\ \E ns \in SeqsUpTo(0..MaxLineNo, MaxDiags), b \in BOOLEAN :
          LET da == [i \in 1..Len(ns) |-> DiagLine(PathA, ns[i])]
          IN  result_stderr = OutputOf(IF b THEN <<DiagLine(PathB, 1)>> \o da ELSE da)

NextConcurrent == FinalCleanup \/ OtherRunWrites

SpecConcurrent == InitConcurrent /\ [][NextConcurrent]_vars

-----------------------------------------------------------------------------
(* The single-operation helpers: safe_fix and regex_fix of FINAL_FIX_ALL.py,  *)
(* fix and regex_fix of fix_to_zero.py                                        *)

\* str.replace(old, new) from position i on: every non-overlapping occurrence,
\* left to right (old is not empty)
RECURSIVE ReplaceFrom(_, _, _, _)
ReplaceFrom(s, i, old, new) ==
    LET hits == {k \in i..(Len(s) - Len(old) + 1) : StartsWithAt(s, k, old)}
    IN  IF hits = {} THEN SubSeq(s, i, Len(s))
        ELSE LET k == CHOOSE h \in hits : \A h2 \in hits : h <= h2
             IN  SubSeq(s, i, k - 1) \o new \o ReplaceFrom(s, k + Len(old), old, new)

Replace(s, old, new) == ReplaceFrom(s, 1, old, new)

\* the characters \s matches
RegexSpace == Whitespace \cup {NL}

\* the length of the run of \s characters of s at position j
RECURSIVE SpaceRun(_, _)
SpaceRun(s, j) == IF j > Len(s) \/ s[j] \notin RegexSpace THEN 0 ELSE 1 + SpaceRun(s, j + 1)

\* The patterns the scripts pass to regex_fix are a literal, or two literals
\* around \s*: [pre, ws, post].  The length of the match of pat at position i
\* of s (greedy \s*, backtracking), or -1
MatchLen(s, i, pat) ==
    IF ~StartsWithAt(s, i, pat.pre) THEN -1
    ELSE LET j == i + Len(pat.pre)
             w == IF pat.ws THEN SpaceRun(s, j) ELSE 0
             ks == {k \in 0..w : StartsWithAt(s, j + k, pat.post)}
         IN  IF ks = {} THEN -1
             ELSE Len(pat.pre) + (CHOOSE k \in ks : \A k2 \in ks : k2 <= k) + Len(pat.post)

\* re.sub(pattern, replacement, s) from position i on, for a replacement
\* without group references
RECURSIVE ReSubFrom(_, _, _, _)
ReSubFrom(s, i, pat, repl) ==
    LET hits == {k \in i..Len(s) : MatchLen(s, k, pat) >= 0}
    IN  IF hits = {} THEN SubSeq(s, i, Len(s))
        ELSE LET k == CHOOSE h \in hits : \A h2 \in hits : h <= h2
             IN  SubSeq(s, i, k - 1) \o repl \o ReSubFrom(s, k + MatchLen(s, k, pat), pat, repl)

ReSub(pat, repl, s) == ReSubFrom(s, 1, pat, repl)

\* what a helper call does: the value it returns, whether it calls write_text,
\* and the text it writes
Outcome(value, wrote, text) == [value |-> value, wrote |-> wrote, text |-> text]

\* faulty variant: the replacement is written without the `old in content` test
LiteralFixUnguarded(path, old, new) ==
    IF ~Exists(path) THEN Outcome(FALSE, FALSE, <<>>)
    ELSE Outcome(TRUE, TRUE, Replace(fs[path].text, old, new))

\* FINAL_FIX_ALL.py safe_fix(path, old, new)
SafeFix(path, old, new) ==
    IF ~Exists(path) THEN Outcome(FALSE, FALSE, <<>>)
    ELSE LET text == fs[path].text
         IN  IF Contains(text, old)
             THEN Outcome(TRUE, TRUE, Replace(text, old, new))
             ELSE Outcome(FALSE, FALSE, text)

\* FINAL_FIX_ALL.py regex_fix(path, pattern, replacement)
RegexFix(path, pattern, replacement) ==
    IF ~Exists(path) THEN Outcome(FALSE, FALSE, <<>>)
    ELSE LET text == fs[path].text
             new_content == ReSub(pattern, replacement, text)
         IN  IF new_content # text
             THEN Outcome(TRUE, TRUE, new_content)
             ELSE Outcome(FALSE, FALSE, text)

\* fix_to_zero.py fix(path, old, new)
Fix(path, old, new) ==
    IF ~Exists(path) THEN Outcome(FALSE, FALSE, <<>>)
    ELSE LET text == fs[path].text
         IN  IF Contains(text, old)
             THEN Outcome(TRUE, TRUE, Replace(text, old, new))
             ELSE Outcome(FALSE, FALSE, text)

\* fix_to_zero.py regex_fix(path, pattern, replacement)
RegexFixToZero(path, pattern, replacement) ==
    IF ~Exists(path) THEN Outcome(FALSE, FALSE, <<>>)
    ELSE LET text == fs[path].text
             new_content == ReSub(pattern, replacement, text)
         IN  IF new_content # text
             THEN Outcome(TRUE, TRUE, new_content)
             ELSE Outcome(FALSE, FALSE, text)

fcVars == <<result_stdout, result_stderr, errors, by_file, line_nums, todo>>

stepVars == <<file_path, lines, content, inserted>>

\* the effect of a helper call with outcome o on the file system, and its record
Effect(fn, path, find, repl, o) ==
    /\ fs' = IF o.wrote THEN WriteText(path, o.text) ELSE fs
    /\ writes' = IF o.wrote THEN Append(writes, WriteEvent(path, o.text)) ELSE writes
    /\ ret' = [fn |-> fn, path |-> path, find |-> find, repl |-> repl,
               value |-> o.value, wrote |-> o.wrote, before |-> fs[path],
               writes_before |-> Len(writes), n |-> ret.n + 1]

MaxCalls == 2
MaxTextLen == 4

HelperPath == SrcPrefix \o <<"h">>

\* find and replace strings of the calls: find/replace pairs in the manner of
\* "markAsRead()" -> "markAsRead('' as any)", and patterns in the manner of
\* r'formatNumber\(\s*\)' -> 'formatNumber(0)' and r'useQuery\(\{' -> 'useQuery<any>({'
LiteralPairs ==
    { << <<"f", "(", ")">>, <<"f", "(", "0", ")">> >>,
      << <<"(">>, <<"(", "(">> >>,
      << <<"f", " ">>, <<"f">> >> }

RegexPairs ==
    { << [pre |-> <<"f", "(">>, ws |-> TRUE, post |-> <<")">>], <<"f", "(", "0", ")">> >>,
      << [pre |-> <<"f", "(">>, ws |-> FALSE, post |-> <<>>], <<"f", "<", ">", "(">> >> }

CallSafeFix ==
    /\ script = "helpers" /\ ret.n < MaxCalls
    /\ \E pr \in LiteralPairs :
          Effect("safe_fix", HelperPath, pr[1], pr[2], SafeFix(HelperPath, pr[1], pr[2]))
    /\ UNCHANGED <<obsVars, script, pc, raised, fixed, fcVars, stepVars>>

CallRegexFix ==
    /\ script = "helpers" /\ ret.n < MaxCalls
    /\ \E pr \in RegexPairs :
          Effect("regex_fix", HelperPath, pr[1], pr[2], RegexFix(HelperPath, pr[1], pr[2]))
    /\ UNCHANGED <<obsVars, script, pc, raised, fixed, fcVars, stepVars>>

CallFix ==
    /\ script = "helpers" /\ ret.n < MaxCalls
    /\ \E pr \in LiteralPairs :
          Effect("fix", HelperPath, pr[1], pr[2], Fix(HelperPath, pr[1], pr[2]))
    /\ UNCHANGED <<obsVars, script, pc, raised, fixed, fcVars, stepVars>>

CallRegexFixToZero ==
    /\ script = "helpers" /\ ret.n < MaxCalls
    /\ \E pr \in RegexPairs :
          Effect("regex_fix_to_zero", HelperPath, pr[1], pr[2],
                 RegexFixToZero(HelperPath, pr[1], pr[2]))
    /\ UNCHANGED <<obsVars, script, pc, raised, fixed, fcVars, stepVars>>

NoCall == [n |-> 0]

InitVarsScript(name, at) ==
    /\ script = name
    /\ pc = at
    /\ raised = "none"
    /\ fixed = 0
    /\ writes = <<>>
    /\ result_stdout = <<>>
    /\ result_stderr = <<>>
    /\ errors = <<>>
    /\ by_file = <<>>
    /\ file_path = <<>>
    /\ line_nums = <<>>
    /\ lines = <<>>
    /\ todo = <<>>
    /\ content = <<>>
    /\ inserted = <<>>
    /\ ret = NoCall
    /\ printed = <<>>
    /\ env = <<>>
    /\ run = 1

\* the target file is missing or holds any short text
InitHelpers ==
    /\ InitVarsScript("helpers", "call")
    /\ \E f \in {Absent} \cup {File(t) : t \in SeqsUpTo({"f", "(", ")", " "}, MaxTextLen)} :
          fs = [p \in {HelperPath} |-> f]

NextHelpers == CallSafeFix \/ CallRegexFix \/ CallFix \/ CallRegexFixToZero

SpecHelpers == InitHelpers /\ [][NextHelpers]_vars

-----------------------------------------------------------------------------
(* fix_to_zero.py: steps 1 (variants page), 2 (notifications page),       *)
(* 7 (RoleModal) and 8 (UserRoleAssignment) of the script, in its order.   *)
(* Steps 3, 5 and 6 are further calls of fix on other files.              *)

VariantsPath ==
    <<"s", "r", "c", "/", "a", "p", "p", "/", "(", "p", "r", "o", "t", "e",
      "c", "t", "e", "d", ")", "/", "a", "d", "m", "i", "n", "/", "t", "i",
      "t", "l", "e", "s", "/", "[", "i", "d", "]", "/", "v", "a", "r", "i",
      "a", "n", "t", "s", "/", "p", "a", "g", "e", ".", "t", "s", "x">>

NotificationsPath ==
    <<"s", "r", "c", "/", "a", "p", "p", "/", "(", "p", "r", "o", "t", "e",
      "c", "t", "e", "d", ")", "/", "n", "o", "t", "i", "f", "i", "c", "a",
      "t", "i", "o", "n", "s", "/", "p", "a", "g", "e", ".", "t", "s", "x">>

RoleModalPath ==
    <<"s", "r", "c", "/", "c", "o", "m", "p", "o", "n", "e", "n", "t", "s",
      "/", "a", "d", "m", "i", "n", "/", "r", "b", "a", "c", "/", "R", "o",
      "l", "e", "M", "o", "d", "a", "l", ".", "t", "s", "x">>

UserRolePath ==
    <<"s", "r", "c", "/", "c", "o", "m", "p", "o", "n", "e", "n", "t", "s",
      "/", "a", "d", "m", "i", "n", "/", "r", "b", "a", "c", "/", "U", "s",
      "e", "r", "R", "o", "l", "e", "A", "s", "s", "i", "g", "n", "m", "e",
      "n", "t", ".", "t", "s", "x">>

UpdateVariantMutation ==
    <<"u", "p", "d", "a", "t", "e", "V", "a", "r", "i", "a", "n", "t", "M",
      "u", "t", "a", "t", "i", "o", "n">>

MarkAsRead ==
    <<"m", "a", "r", "k", "A", "s", "R", "e", "a", "d", "(", ")">>

MarkAsReadAny ==
    <<"m", "a", "r", "k", "A", "s", "R", "e", "a", "d", "(", "'", "'", " ",
      "a", "s", " ", "a", "n", "y", ")">>


\* '        //@ts-expect-error'
Indented8Marker == Spaces(8) \o Marker

\* read_text of a path that does not exist
Raise(exc) ==
    /\ raised' = exc
    /\ pc' = "aborted"
    /\ UNCHANGED <<obsVars, fs, script, fixed, writes, fcVars, stepVars, ret>>

\* lines 35-41: the list after the enumerate loop, which can only act at i = 106
VariantsLines(ls) ==
    IF /\ Len(ls) > 106
       /\ Contains(ls[107], UpdateVariantMutation)
       /\ ~Contains(ls[106], Marker)
    THEN ListInsert(ls, 106, Indented8Marker)
    ELSE ls

\* lines 32-44
StepVariants ==
    /\ script = "fix_to_zero" /\ pc = "variants"
    /\ IF ~Exists(VariantsPath) THEN Raise("FileNotFoundError")
       ELSE LET text == fs[VariantsPath].text
                ls == SplitLines(text)
                out == VariantsLines(ls)
                new_text == JoinLines(out)
            IN  /\ fs' = WriteText(VariantsPath, new_text)
                /\ writes' = Append(writes, WriteEvent(VariantsPath, new_text))
                /\ fixed' = fixed + 1
                /\ file_path' = VariantsPath
                /\ content' = text
                /\ lines' = out
                /\ inserted' = IF out # ls THEN <<107>> ELSE <<>>
                /\ pc' = "notifications"
                /\ UNCHANGED <<obsVars, script, raised, fcVars, ret>>

\* lines 46-51
StepNotifications ==
    /\ script = "fix_to_zero" /\ pc = "notifications"
    /\ LET o == Fix(NotificationsPath, MarkAsRead, MarkAsReadAny)
       IN  /\ Effect("fix", NotificationsPath, MarkAsRead, MarkAsReadAny, o)
           /\ fixed' = IF o.value THEN fixed + 1 ELSE fixed
    /\ pc' = "rolemodal"
    /\ UNCHANGED <<obsVars, script, raised, fcVars, stepVars>>

\* lines 109-118
StepRoleModal ==
    /\ script = "fix_to_zero" /\ pc = "rolemodal"
    /\ IF ~Exists(RoleModalPath) THEN Raise("FileNotFoundError")
       ELSE LET text == fs[RoleModalPath].text
                ls == SplitLines(text)
            IN  /\ IF Len(ls) > 243 /\ ~Contains(ls[243], Marker)
                   THEN LET out == ListInsert(ls, 243, Indented8Marker)
                            new_text == JoinLines(out)
                        IN  /\ fs' = WriteText(RoleModalPath, new_text)
                            /\ writes' = Append(writes, WriteEvent(RoleModalPath, new_text))
                            /\ fixed' = fixed + 1
                            /\ lines' = out
                            /\ inserted' = <<244>>
                   ELSE /\ UNCHANGED <<fs, writes, fixed>>
                        /\ lines' = ls
                        /\ inserted' = <<>>
                /\ file_path' = RoleModalPath
                /\ content' = text
                /\ pc' = "userrole"
                /\ UNCHANGED <<obsVars, script, raised, fcVars, ret>>

\* the hard-coded line numbers of line 124
UserRoleLineNums == <<156, 234>>

\* lines 124-126: the loop over the line numbers nums, from the list ls with
\* the insertions done so far: the final list and the line numbers inserted at
RECURSIVE InsertAtLineNums(_, _, _)
InsertAtLineNums(ls, nums, done) ==
    IF nums = <<>> THEN [lines |-> ls, inserted |-> done]
    ELSE LET line_num == Head(nums)
         IN  IF Len(ls) > line_num /\ ~Contains(ls[line_num - 1], Marker)
             THEN InsertAtLineNums(ListInsert(ls, line_num - 1, Indented8Marker),
                                   Tail(nums), Append(done, line_num))
             ELSE InsertAtLineNums(ls, Tail(nums), done)

\* lines 120-129
StepUserRole ==
    /\ script = "fix_to_zero" /\ pc = "userrole"
    /\ IF ~Exists(UserRolePath) THEN Raise("FileNotFoundError")
       ELSE LET text == fs[UserRolePath].text
                r == InsertAtLineNums(SplitLines(text), UserRoleLineNums, <<>>)
                new_text == JoinLines(r.lines)
            IN  /\ fs' = WriteText(UserRolePath, new_text)
                /\ writes' = Append(writes, WriteEvent(UserRolePath, new_text))
                /\ fixed' = fixed + 1
                /\ file_path' = UserRolePath
                /\ content' = text
                /\ lines' = r.lines
                /\ inserted' = r.inserted
                /\ pc' = "done"
                /\ UNCHANGED <<obsVars, script, raised, fcVars, ret>>

\* a text of n lines like BigText whose line 107 calls updateVariantMutation
VariantsText(n, marked) ==
    JoinLines([i \in 1..n |->
        IF i = 107 THEN Spaces(6) \o UpdateVariantMutation \o <<".", "m", "(">>
        ELSE IF i = marked THEN Indented8Marker
        ELSE BigLine(i)])

\* each target is missing, or a file long enough for the hard-coded line
\* numbers with or without a marker in front of them, or a short file
InitFixToZero ==
    /\ InitVarsScript("fix_to_zero", "variants")
    /\ \E v \in {Absent, File(VariantsText(110, 0)), File(VariantsText(110, 106)),
                 File(BigText(3, 0, <<NL>>))},
          n \in {Absent, File(<<"x", " ">> \o MarkAsRead \o <<";", NL>> \o MarkAsRead),
                 File(<<"x", NL>>)},
          r \in {Absent, File(BigText(250, 0, <<NL>>)), File(BigText(250, 243, <<>>)),
                 File(BigText(243, 0, <<>>))},
          u \in {Absent, File(BigText(240, 0, <<NL>>)), File(BigText(240, 155, <<NL>>)),
                 File(BigText(234, 0, <<>>)), File(BigText(234, 0, <<NL>>)),
                 File(BigText(100, 0, <<>>))} :
          fs = [p \in {VariantsPath, NotificationsPath, RoleModalPath, UserRolePath} |->
                  CASE p = VariantsPath -> v
                    [] p = NotificationsPath -> n
                    [] p = RoleModalPath -> r
                    [] p = UserRolePath -> u]

NextFixToZero == StepVariants \/ StepNotifications \/ StepRoleModal \/ StepUserRole

SpecFixToZero == InitFixToZero /\ [][NextFixToZero]_vars

-----------------------------------------------------------------------------
(* fix_to_zero.py, step 21 (useDownloads): markers are inserted into the     *)
(* list that the loop enumerates.  Each iteration of the loop is one step;   *)
(* todo holds the index that enumerate() hands out next.                     *)

DownloadsPath ==
    <<"s", "r", "c", "/", "l", "i", "b", "/", "a", "p", "i", "/", "h", "o",
      "o", "k", "s", "/", "u", "s", "e", "D", "o", "w", "n", "l", "o", "a",
      "d", "s", ".", "t", "s">>

DotSome == <<".", "s", "o", "m", "e", "(">>

DotStatus == <<".", "s", "t", "a", "t", "u", "s">>

\* line 290, the inserted line
Indented4Marker == Spaces(4) \o Marker

\* faulty variant of TestedLine: lines[i - 1], where index -1 is the last line
TestedLineWrapping(ls, i) == IF i = 0 THEN ls[Len(ls)] ELSE ls[i]

\* line 289: lines[max(0, i - 1)]
TestedLine(ls, i) == ls[Max(0, i - 1) + 1]

\* lines 284-286
StepDownloadsRead ==
    /\ script = "fix_to_zero" /\ pc = "downloads"
    /\ IF ~Exists(DownloadsPath)
       THEN /\ pc' = "summary"
            /\ UNCHANGED <<stepVars, todo>>
       ELSE /\ file_path' = DownloadsPath
            /\ content' = fs[DownloadsPath].text
            /\ lines' = SplitLines(fs[DownloadsPath].text)
            /\ inserted' = <<>>
            /\ todo' = 0
            /\ pc' = "downloads_loop"
    /\ UNCHANGED <<obsVars, fs, script, raised, fixed, writes, result_stdout,
                   result_stderr, errors, by_file, line_nums, ret>>

\* lines 288-290, one iteration: enumerate() yields (i, lines[i]) from the
\* list as it is now
StepDownloadsIter ==
    /\ script = "fix_to_zero" /\ pc = "downloads_loop"
    /\ todo < Len(lines)
    /\ LET i == todo
           line == lines[i + 1]
       IN  IF /\ Contains(line, DotSome) \/ Contains(line, DotStatus)
              /\ ~Contains(TestedLine(lines, i), Marker)
           THEN /\ lines' = ListInsert(lines, i, Indented4Marker)
                /\ inserted' = Append(inserted, i)
           ELSE UNCHANGED <<lines, inserted>>
    /\ todo' = todo + 1
    /\ UNCHANGED <<obsVars, fs, script, pc, raised, fixed, writes, result_stdout,
                   result_stderr, errors, by_file, line_nums, file_path, content, ret>>

\* lines 291-293, after the iterator is exhausted
StepDownloadsWrite ==
    /\ script = "fix_to_zero" /\ pc = "downloads_loop"
    /\ todo >= Len(lines)
    /\ LET new_text == JoinLines(lines)
       IN  /\ fs' = WriteText(DownloadsPath, new_text)
           /\ writes' = Append(writes, WriteEvent(DownloadsPath, new_text))
    /\ printed' = Append(printed, Printed("OK", DownloadsPath, 0))
    /\ fixed' = fixed + 1
    /\ pc' = "summary"
    /\ UNCHANGED <<script, raised, fcVars, stepVars, ret, env, run>>

\* line 295
PrintFilesFixedToZero ==
    /\ script = "fix_to_zero" /\ pc = "summary"
    /\ printed' = Append(printed, Printed("files fixed", <<>>, fixed))
    /\ pc' = "done"
    /\ UNCHANGED <<fs, script, raised, fixed, writes, fcVars, stepVars, ret, env, run>>

\* lines of the hook: matching, marked, both, neither
DownloadsLines ==
    { <<"x">>,
      <<"a">> \o DotSome,
      <<"r">> \o DotStatus,
      Indented4Marker,
      <<"r">> \o DotStatus \o <<" ">> \o Marker }

\* the hook is missing or holds up to MaxLines + 1 lines, with or without a
\* newline at the end
InitDownloads ==
    /\ InitVarsScript("fix_to_zero", "downloads")
    /\ \E f \in {Absent} \cup
                {File(JoinLines(ls) \o e) : ls \in SeqsUpTo(DownloadsLines, MaxLines + 1) \ {<<>>},
                                           e \in {<<>>, <<NL>>}} :
          fs = [p \in {DownloadsPath} |-> f]

NextDownloads ==
    StepDownloadsRead \/ StepDownloadsIter \/ StepDownloadsWrite \/ PrintFilesFixedToZero

SpecDownloads == InitDownloads /\ [][NextDownloads]_vars

-----------------------------------------------------------------------------
(* master_fix.py: main() runs its functions in list order, each inside      *)
(* try/except.  Modelled: fix_analytics_service (the first function; the     *)
(* other fix_* functions read, substitute, call fix_file and print in the    *)
(* same way) and add_missing_dependencies.                                   *)

AnalyticsPath ==
    <<"s", "r", "c", "/", "l", "i", "b", "/", "a", "p", "i", "/", "s", "e",
      "r", "v", "i", "c", "e", "s", "/", "a", "n", "a", "l", "y", "t", "i",
      "c", "s", ".", "t", "s">>

TypesDir ==
    <<"s", "r", "c", "/", "t", "y", "p", "e", "s">>

AmbientPath ==
    <<"s", "r", "c", "/", "t", "y", "p", "e", "s", "/", "a", "m", "b", "i",
      "e", "n", "t", ".", "d", ".", "t", "s">>

\* ambient_content.strip()
AmbientContent ==
    <<"d", "e", "c", "l", "a", "r", "e", " ", "m", "o", "d", "u", "l", "e",
      " ", "'", "r", "e", "a", "c", "t", "-", "d", "r", "o", "p", "z", "o",
      "n", "e", "'", " ", "{", NL, " ", " ", "e", "x", "p", "o", "r", "t",
      " ", "f", "u", "n", "c", "t", "i", "o", "n", " ", "u", "s", "e", "D",
      "r", "o", "p", "z", "o", "n", "e", "(", "o", "p", "t", "i", "o", "n",
      "s", "?", ":", " ", "a", "n", "y", ")", ":", " ", "a", "n", "y", ";",
      NL, "}", NL, NL, "d", "e", "c", "l", "a", "r", "e", " ", "m", "o",
      "d", "u", "l", "e", " ", "'", "@", "t", "a", "n", "s", "t", "a", "c",
      "k", "/", "r", "e", "a", "c", "t", "-", "t", "a", "b", "l", "e", "'",
      " ", "{", NL, " ", " ", "e", "x", "p", "o", "r", "t", " ", "f", "u",
      "n", "c", "t", "i", "o", "n", " ", "u", "s", "e", "R", "e", "a", "c",
      "t", "T", "a", "b", "l", "e", "(", "o", "p", "t", "i", "o", "n", "s",
      ":", " ", "a", "n", "y", ")", ":", " ", "a", "n", "y", ";", NL, " ",
      " ", "e", "x", "p", "o", "r", "t", " ", "f", "u", "n", "c", "t", "i",
      "o", "n", " ", "g", "e", "t", "C", "o", "r", "e", "R", "o", "w", "M",
      "o", "d", "e", "l", "(", ")", ":", " ", "a", "n", "y", ";", NL, " ",
      " ", "e", "x", "p", "o", "r", "t", " ", "f", "u", "n", "c", "t", "i",
      "o", "n", " ", "g", "e", "t", "F", "i", "l", "t", "e", "r", "e", "d",
      "R", "o", "w", "M", "o", "d", "e", "l", "(", ")", ":", " ", "a", "n",
      "y", ";", NL, " ", " ", "e", "x", "p", "o", "r", "t", " ", "f", "u",
      "n", "c", "t", "i", "o", "n", " ", "g", "e", "t", "P", "a", "g", "i",
      "n", "a", "t", "i", "o", "n", "R", "o", "w", "M", "o", "d", "e", "l",
      "(", ")", ":", " ", "a", "n", "y", ";", NL, " ", " ", "e", "x", "p",
      "o", "r", "t", " ", "f", "u", "n", "c", "t", "i", "o", "n", " ", "g",
      "e", "t", "S", "o", "r", "t", "e", "d", "R", "o", "w", "M", "o", "d",
      "e", "l", "(", ")", ":", " ", "a", "n", "y", ";", NL, " ", " ", "e",
      "x", "p", "o", "r", "t", " ", "f", "u", "n", "c", "t", "i", "o", "n",
      " ", "f", "l", "e", "x", "R", "e", "n", "d", "e", "r", "(", "e", "l",
      "e", "m", "e", "n", "t", ":", " ", "a", "n", "y", ",", " ", "c", "o",
      "n", "t", "e", "x", "t", ":", " ", "a", "n", "y", ")", ":", " ", "a",
      "n", "y", ";", NL, "}", NL, NL, "d", "e", "c", "l", "a", "r", "e",
      " ", "m", "o", "d", "u", "l", "e", " ", "'", "u", "u", "i", "d", "'",
      " ", "{", NL, " ", " ", "e", "x", "p", "o", "r", "t", " ", "f", "u",
      "n", "c", "t", "i", "o", "n", " ", "v", "4", "(", ")", ":", " ", "s",
      "t", "r", "i", "n", "g", ";", NL, "}", NL, NL, "d", "e", "c", "l",
      "a", "r", "e", " ", "m", "o", "d", "u", "l", "e", " ", "'", "s", "o",
      "c", "k", "e", "t", ".", "i", "o", "-", "c", "l", "i", "e", "n", "t",
      "'", " ", "{", NL, " ", " ", "e", "x", "p", "o", "r", "t", " ", "f",
      "u", "n", "c", "t", "i", "o", "n", " ", "i", "o", "(", "u", "r", "l",
      ":", " ", "s", "t", "r", "i", "n", "g", ",", " ", "o", "p", "t", "i",
      "o", "n", "s", "?", ":", " ", "a", "n", "y", ")", ":", " ", "a", "n",
      "y", ";", NL, "}">>

ReturnKeyword == <<"r", "e", "t", "u", "r", "n">>

DotDataSemicolon == <<".", "d", "a", "t", "a", ";">>

ReturnResponseData ==
    <<"r", "e", "t", "u", "r", "n", " ", "r", "e", "s", "p", "o", "n", "s",
      "e", ".", "d", "a", "t", "a", ";">>

ReturnResponseAsAny ==
    <<"r", "e", "t", "u", "r", "n", " ", "r", "e", "s", "p", "o", "n", "s",
      "e", " ", "a", "s", " ", "a", "n", "y", ";">>

AsAnySemicolon == <<" ", "a", "s", " ", "a", "n", "y", ";">>

\* the characters \w matches
WordChars ==
    {"a", "b", "c", "d", "e", "f", "g", "h", "i", "j", "k", "l", "m", "n",
     "o", "p", "q", "r", "s", "t", "u", "v", "w", "x", "y", "z", "A", "B",
     "C", "D", "E", "F", "G", "H", "I", "J", "K", "L", "M", "N", "O", "P",
     "Q", "R", "S", "T", "U", "V", "W", "X", "Y", "Z", "0", "1", "2", "3",
     "4", "5", "6", "7", "8", "9", "_"}

\* the length of the run of \w characters of s at position j
RECURSIVE WordRun(_, _)
WordRun(s, j) == IF j > Len(s) \/ s[j] \notin WordChars THEN 0 ELSE 1 + WordRun(s, j + 1)

\* line 22: the pattern r'return\s+(\w+)\.data;' at position i of s: the
\* positions of the group and the length of the match, or no match.  \s+ and
\* \w+ are greedy and what follows each of them cannot match a character of
\* the run, so a match takes both runs whole
MatchReturnData(s, i) ==
    LET j == i + Len(ReturnKeyword)
        w == SpaceRun(s, j)
        k == WordRun(s, j + w)
    IN  IF /\ StartsWithAt(s, i, ReturnKeyword)
           /\ w >= 1 /\ k >= 1
           /\ StartsWithAt(s, j + w + k, DotDataSemicolon)
        THEN [matched |-> TRUE, from |-> j + w, to |-> j + w + k - 1,
              len |-> Len(ReturnKeyword) + w + k + Len(DotDataSemicolon)]
        ELSE [matched |-> FALSE, from |-> 0, to |-> 0, len |-> 0]

\* line 22: re.sub(r'return\s+(\w+)\.data;', r'return \1 as any;', s) from
\* position i on
RECURSIVE SubReturnDataFrom(_, _)
SubReturnDataFrom(s, i) ==
    LET hits == {k \in i..Len(s) : MatchReturnData(s, k).matched}
    IN  IF hits = {} THEN SubSeq(s, i, Len(s))
        ELSE LET k == CHOOSE h \in hits : \A h2 \in hits : h <= h2
                 mt == MatchReturnData(s, k)
             IN  SubSeq(s, i, k - 1)
                   \o ReturnKeyword \o <<" ">> \o SubSeq(s, mt.from, mt.to) \o AsAnySemicolon
                   \o SubReturnDataFrom(s, k + mt.len)

\* lines 21-22
AnalyticsSubs(text) ==
    SubReturnDataFrom(
        ReSub([pre |-> ReturnResponseData, ws |-> FALSE, post |-> <<>>], ReturnResponseAsAny, text),
        1)

\* lines 7-13: fix_file(path, content) returns True after write_text, and
\* False when write_text raised (the exception is swallowed)
FixFile(path, text, ok) == Outcome(ok, ok, text)

\* lines 15-25 inside the try/except of lines 231-234: a missing or unreadable
\* file raises in read_text and main prints the error; otherwise the function
\* substitutes, calls fix_file, ignores what it returns and prints
FixAnalyticsService ==
    /\ script = "master_fix" /\ pc = "analytics"
    /\ \/ /\ ~Exists(AnalyticsPath)
          /\ printed' = Append(printed, Printed("Error", AnalyticsPath, 0))
          /\ UNCHANGED <<fs, writes, env, content>>
       \/ /\ Exists(AnalyticsPath)
          /\ env' = Append(env, EnvEvent("read_failed", AnalyticsPath, <<>>))
          /\ printed' = Append(printed, Printed("Error", AnalyticsPath, 0))
          /\ UNCHANGED <<fs, writes, content>>
       \/ /\ Exists(AnalyticsPath)
          /\ \E ok \in BOOLEAN, truncated \in BOOLEAN :
                LET text == fs[AnalyticsPath].text
                    o == FixFile(AnalyticsPath, AnalyticsSubs(text), ok)
                IN  /\ content' = text
                    /\ fs' = IF o.wrote THEN WriteText(AnalyticsPath, o.text)
                             ELSE IF truncated THEN WriteText(AnalyticsPath, <<>>)
                             ELSE fs
                    /\ writes' = IF o.wrote THEN Append(writes, WriteEvent(AnalyticsPath, o.text))
                                 ELSE writes
                    /\ env' = IF o.wrote THEN env
                              ELSE Append(env, EnvEvent("write_failed", AnalyticsPath, o.text))
                    /\ printed' = Append(printed, Printed("Fixed", AnalyticsPath, 0))
    /\ file_path' = AnalyticsPath
    /\ pc' = "dependencies"
    /\ UNCHANGED <<script, raised, fixed, fcVars, lines, inserted, ret, run>>

\* lines 152-181 inside the try/except of lines 231-234: the directory is made
\* if it is not there, the declarations file is created or overwritten; when
\* write_text raises, main prints the error
AddMissingDependencies ==
    /\ script = "master_fix" /\ pc = "dependencies"
    /\ \E ok \in BOOLEAN :
          LET made == [fs EXCEPT ![TypesDir] = File(<<>>)]
          IN  IF ok
              THEN /\ fs' = [made EXCEPT ![AmbientPath] = File(AmbientContent)]
                   /\ writes' = Append(writes, WriteEvent(AmbientPath, AmbientContent))
                   /\ printed' = Append(printed, Printed("Created", AmbientPath, 0))
                   /\ UNCHANGED env
              ELSE /\ fs' = made
                   /\ env' = Append(env, EnvEvent("write_failed", AmbientPath, AmbientContent))
                   /\ printed' = Append(printed, Printed("Error", AmbientPath, 0))
                   /\ UNCHANGED writes
    /\ file_path' = AmbientPath
    /\ pc' = "done"
    /\ UNCHANGED <<script, raised, fixed, fcVars, lines, content, inserted, ret, run>>

\* lines of a service file
ServiceLines ==
    { ReturnResponseData,
      <<" ", " ">> \o ReturnKeyword \o <<" ", "\t", "r", "_", "1">> \o DotDataSemicolon,
      ReturnKeyword \o <<" ", "x", ";">>,
      ReturnKeyword \o <<".", "d", "a", "t", "a", ";">> }

\* the service file is missing or holds a few lines; the declarations file
\* and its directory are there or not
InitMasterFix ==
    /\ InitVarsScript("master_fix", "analytics")
    /\ \E a \in {Absent} \cup {File(JoinLines(ls)) : ls \in SeqsUpTo(ServiceLines, MaxLines)},
          d \in { <<Absent, Absent>>, <<File(<<>>), Absent>>, <<File(<<>>), File(<<"x">>)>> } :
          fs = [p \in {AnalyticsPath, TypesDir, AmbientPath} |->
                  CASE p = AnalyticsPath -> a
                    [] p = TypesDir -> d[1]
                    [] p = AmbientPath -> d[2]]

NextMasterFix == FixAnalyticsService \/ AddMissingDependencies

SpecMasterFix == InitMasterFix /\ [][NextMasterFix]_vars

-----------------------------------------------------------------------------
(* FINAL_FIX_ALL.py: step 6, the trusted devices page (lines 102-134), and   *)
(* the summary of line 288.  The other steps are further calls of safe_fix   *)
(* and regex_fix and blocks like the one of lines 127-134 on other files.    *)

MaxRuns == 2

TrustPath ==
    <<"s", "r", "c", "/", "a", "p", "p", "/", "(", "p", "r", "o", "t", "e",
      "c", "t", "e", "d", ")", "/", "s", "e", "t", "t", "i", "n", "g", "s",
      "/", "t", "r", "u", "s", "t", "e", "d", "-", "d", "e", "v", "i", "c",
      "e", "s", "/", "p", "a", "g", "e", ".", "t", "s", "x">>

DeviceIconsOld ==
    <<"d", "e", "v", "i", "c", "e", "I", "c", "o", "n", "s", "[", "d", "e",
      "v", "i", "c", "e", ".", "d", "e", "v", "i", "c", "e", "_", "t", "y",
      "p", "e", "]">>

DeviceIconsNew ==
    <<"d", "e", "v", "i", "c", "e", "I", "c", "o", "n", "s", "[", "d", "e",
      "v", "i", "c", "e", ".", "d", "e", "v", "i", "c", "e", "_", "t", "y",
      "p", "e", " ", "a", "s", " ", "k", "e", "y", "o", "f", " ", "t", "y",
      "p", "e", "o", "f", " ", "d", "e", "v", "i", "c", "e", "I", "c", "o",
      "n", "s", "]">>

DeviceNamesOld ==
    <<"d", "e", "v", "i", "c", "e", "N", "a", "m", "e", "s", "[", "d", "e",
      "v", "i", "c", "e", ".", "d", "e", "v", "i", "c", "e", "_", "t", "y",
      "p", "e", "]">>

DeviceNamesNew ==
    <<"d", "e", "v", "i", "c", "e", "N", "a", "m", "e", "s", "[", "d", "e",
      "v", "i", "c", "e", ".", "d", "e", "v", "i", "c", "e", "_", "t", "y",
      "p", "e", " ", "a", "s", " ", "k", "e", "y", "o", "f", " ", "t", "y",
      "p", "e", "o", "f", " ", "d", "e", "v", "i", "c", "e", "N", "a", "m",
      "e", "s", "]">>

SetViewingOld ==
    <<"s", "e", "t", "V", "i", "e", "w", "i", "n", "g", "D", "e", "v", "i",
      "c", "e", "(", "d", "e", "v", "i", "c", "e", ")">>

SetViewingNew ==
    <<"s", "e", "t", "V", "i", "e", "w", "i", "n", "g", "D", "e", "v", "i",
      "c", "e", "(", "d", "e", "v", "i", "c", "e", " ", "a", "s", " ", "a",
      "n", "y", ")">>

SetTrustingOld ==
    <<"s", "e", "t", "T", "r", "u", "s", "t", "i", "n", "g", "D", "e", "v",
      "i", "c", "e", "(", "d", "e", "v", "i", "c", "e", ")">>

SetTrustingNew ==
    <<"s", "e", "t", "T", "r", "u", "s", "t", "i", "n", "g", "D", "e", "v",
      "i", "c", "e", "(", "d", "e", "v", "i", "c", "e", " ", "a", "s", " ",
      "a", "n", "y", ")">>

CreatedAtOld ==
    <<"d", "e", "v", "i", "c", "e", ".", "c", "r", "e", "a", "t", "e", "d",
      "_", "a", "t">>

CreatedAtNew ==
    <<"(", "d", "e", "v", "i", "c", "e", " ", "a", "s", " ", "a", "n", "y",
      ")", ".", "l", "a", "s", "t", "_", "u", "s", "e", "d", " ", "|", "|",
      " ", "'", "'">>

\* the arguments of the four safe_fix calls of lines 103-125, in order
TrustFixes ==
    << <<DeviceIconsOld, DeviceIconsNew>>, <<DeviceNamesOld, DeviceNamesNew>>,
       <<SetViewingOld, SetViewingNew>>, <<SetTrustingOld, SetTrustingNew>> >>

\* lines 103-125: the next safe_fix call on the trusted devices page
SafeFixTrustedDevices ==
    /\ script = "FINAL_FIX_ALL" /\ pc = "trusted_devices" /\ todo # <<>>
    /\ LET old == Head(todo)[1]
           new == Head(todo)[2]
           o == SafeFix(TrustPath, old, new)
       IN  /\ Effect("safe_fix", TrustPath, old, new, o)
           /\ fixed' = IF o.value THEN fixed + 1 ELSE fixed
           /\ printed' = IF o.value THEN Append(printed, Printed("OK", TrustPath, 0))
                         ELSE printed
    /\ todo' = Tail(todo)
    /\ UNCHANGED <<script, pc, raised, result_stdout, result_stderr, errors, by_file,
                   line_nums, stepVars, env, run>>

\* lines 127-134
CreatedAtBlock ==
    /\ script = "FINAL_FIX_ALL" /\ pc = "trusted_devices" /\ todo = <<>>
    /\ IF Exists(TrustPath)
       THEN LET text == fs[TrustPath].text
                new_text == Replace(text, CreatedAtOld, CreatedAtNew)
            IN  /\ fs' = WriteText(TrustPath, new_text)
                /\ writes' = Append(writes, WriteEvent(TrustPath, new_text))
                /\ printed' = Append(printed, Printed("OK", TrustPath, 0))
                /\ fixed' = fixed + 1
                /\ content' = text
       ELSE UNCHANGED <<fs, writes, printed, fixed, content>>
    /\ file_path' = TrustPath
    /\ pc' = "summary"
    /\ UNCHANGED <<script, raised, fcVars, lines, inserted, ret, env, run>>

\* line 288
PrintApplied ==
    /\ script = "FINAL_FIX_ALL" /\ pc = "summary"
    /\ printed' = Append(printed, Printed("Applied fixes", <<>>, fixed))
    /\ pc' = "done"
    /\ UNCHANGED <<fs, script, raised, fixed, writes, fcVars, stepVars, ret, env, run>>

\* the script is started again on the tree the run before left; writes and
\* printed restart with the run
RunAgain ==
    /\ script = "FINAL_FIX_ALL" /\ pc = "done" /\ run < MaxRuns
    /\ run' = run + 1
    /\ fixed' = 0
    /\ todo' = TrustFixes
    /\ writes' = <<>>
    /\ printed' = <<>>
    /\ pc' = "trusted_devices"
    /\ UNCHANGED <<fs, script, raised, result_stdout, result_stderr, errors, by_file,
                   line_nums, stepVars, ret, env>>

\* lines of the trusted devices page
TrustLines ==
    { <<"x", " ", "=", " ">> \o DeviceIconsOld,
      SetViewingOld \o <<";", " ">> \o SetViewingOld,
      <<"k", "e", "y", "=", "{">> \o CreatedAtOld \o <<"}">>,
      <<"y">> }

\* the page is missing or holds a few lines
InitFinalFixAll ==
    /\ script = "FINAL_FIX_ALL"
    /\ pc = "trusted_devices"
    /\ raised = "none"
    /\ fixed = 0
    /\ writes = <<>>
    /\ result_stdout = <<>>
    /\ result_stderr = <<>>
    /\ errors = <<>>
    /\ by_file = <<>>
    /\ file_path = <<>>
    /\ line_nums = <<>>
    /\ lines = <<>>
    /\ todo = TrustFixes
    /\ content = <<>>
    /\ inserted = <<>>
    /\ ret = NoCall
    /\ printed = <<>>
    /\ env = <<>>
    /\ run = 1
    /\ \E f \in {Absent} \cup {File(JoinLines(ls)) : ls \in SeqsUpTo(TrustLines, MaxLines)} :
          fs = [p \in {TrustPath} |-> f]

NextFinalFixAll == SafeFixTrustedDevices \/ CreatedAtBlock \/ PrintApplied \/ RunAgain

SpecFinalFixAll == InitFinalFixAll /\ [][NextFinalFixAll]_vars

-----------------------------------------------------------------------------
(* The list-based helpers: apply_replacements of comprehensive_fix.py,       *)
(* fix_file(path, replacements) of fix_all_production_errors.py and          *)
(* fix(path, replacements) of fix_remaining_errors.py.  One call is a read,  *)
(* one step per replacement of the list, and the write.                      *)

ListHelpers == {"apply_replacements", "fix_file", "fix"}

\* faulty variant: the list is walked from its end
ReverseOrder(replacements) ==
    [i \in 1..Len(replacements) |-> replacements[Len(replacements) + 1 - i]]

\* `for old, new in replacements`
IterationOrder(replacements) == replacements

\* the body of the loop: apply_replacements and fix_file replace under
\* `if old in content` and set modified, fix replaces unconditionally
ReplaceOne(fn, text, old, new) ==
    IF fn = "fix" THEN [text |-> Replace(text, old, new), modified |-> FALSE]
    ELSE IF Contains(text, old) THEN [text |-> Replace(text, old, new), modified |-> TRUE]
    ELSE [text |-> text, modified |-> FALSE]

\* the exists test and read_text
CallListHelper ==
    /\ script = "lists" /\ pc = "call"
    /\ ret' = [ret EXCEPT !.before = fs[ret.path], !.modified = FALSE, !.value = FALSE,
                          !.wrote = FALSE, !.n = @ + 1]
    /\ IF Exists(ret.path)
       THEN /\ content' = fs[ret.path].text
            /\ todo' = IterationOrder(ret.list)
            /\ pc' = "replace"
       ELSE /\ content' = <<>>
            /\ todo' = <<>>
            /\ pc' = "returned"
    /\ UNCHANGED <<obsVars, fs, script, raised, fixed, writes, result_stdout, result_stderr,
                   errors, by_file, file_path, line_nums, lines, inserted>>

\* one iteration of the loop over the replacements
ReplaceStep ==
    /\ script = "lists" /\ pc = "replace" /\ todo # <<>>
    /\ LET r == ReplaceOne(ret.fn, content, Head(todo)[1], Head(todo)[2])
       IN  /\ content' = r.text
           /\ ret' = [ret EXCEPT !.modified = @ \/ r.modified]
    /\ todo' = Tail(todo)
    /\ UNCHANGED <<obsVars, fs, script, pc, raised, fixed, writes, result_stdout,
                   result_stderr, errors, by_file, file_path, line_nums, lines, inserted>>

\* after the loop: apply_replacements and fix_file write and print when
\* modified is set and return modified; fix writes and prints, and returns
\* nothing
FinishList ==
    /\ script = "lists" /\ pc = "replace" /\ todo = <<>>
    /\ LET wrote == ret.fn = "fix" \/ ret.modified
       IN  /\ fs' = IF wrote THEN WriteText(ret.path, content) ELSE fs
           /\ writes' = IF wrote THEN Append(writes, WriteEvent(ret.path, content)) ELSE writes
           /\ printed' = IF wrote THEN Append(printed, Printed("OK", ret.path, 0)) ELSE printed
           /\ ret' = [ret EXCEPT !.wrote = wrote, !.value = ret.modified]
    /\ pc' = "returned"
    /\ UNCHANGED <<env, run, script, raised, fixed, result_stdout, result_stderr, errors,
                   by_file, file_path, line_nums, lines, todo, content, inserted>>

\* the same call is made again, on the file as the call before left it
CallAgain ==
    /\ script = "lists" /\ pc = "returned" /\ run < MaxRuns
    /\ run' = run + 1
    /\ writes' = <<>>
    /\ printed' = <<>>
    /\ pc' = "call"
    /\ UNCHANGED <<fs, script, raised, fixed, fcVars, stepVars, ret, env>>

\* find/replace pairs in the manner of ("formatNumber()", "formatNumber(0)"),
\* ("total_count", "total_count as any") and
\* ("mutateAsync({", "mutateAsync({" + " //@ts-ignore\n        ")
ListPairs ==
    { << <<"f", "(", ")">>, <<"f", "(", "0", ")">> >>,
      << <<"f">>, <<"f", " ", "a">> >>,
      << <<"(">>, <<"(", " ", NL>> >>,
      << <<"f", " ", "a">>, <<"g">> >> }

\* the lists of the calls: one pair, or two different pairs
ReplacementLists ==
    {<<p>> : p \in ListPairs}
        \cup {<<pq[1], pq[2]>> : pq \in {x \in ListPairs \X ListPairs : x[1] # x[2]}}

\* the target file is missing or holds any short text; the script calls one
\* helper with one list
InitLists ==
    /\ script = "lists"
    /\ pc = "call"
    /\ raised = "none"
    /\ fixed = 0
    /\ writes = <<>>
    /\ result_stdout = <<>>
    /\ result_stderr = <<>>
    /\ errors = <<>>
    /\ by_file = <<>>
    /\ file_path = <<>>
    /\ line_nums = <<>>
    /\ lines = <<>>
    /\ todo = <<>>
    /\ content = <<>>
    /\ inserted = <<>>
    /\ printed = <<>>
    /\ env = <<>>
    /\ run = 1
    /\ \E fn \in ListHelpers, reps \in ReplacementLists :
          ret = [fn |-> fn, path |-> HelperPath, list |-> reps, before |-> Absent,
                 modified |-> FALSE, value |-> FALSE, wrote |-> FALSE, n |-> 0]
    /\ \E f \in {Absent} \cup {File(t) : t \in SeqsUpTo({"f", "(", ")"}, MaxTextLen)} :
          fs = [p \in {HelperPath} |-> f]

NextLists == CallListHelper \/ ReplaceStep \/ FinishList \/ CallAgain

SpecLists == InitLists /\ [][NextLists]_vars

-----------------------------------------------------------------------------
(* ULTIMATE_FIX.py: steps 2 (plans page) and 3 (variants page).  Step 1      *)
(* rewrites other files; the later steps are blocks of the same kind.        *)

PlansPath ==
    <<"s", "r", "c", "/", "a", "p", "p", "/", "(", "p", "r", "o", "t", "e",
      "c", "t", "e", "d", ")", "/", "a", "d", "m", "i", "n", "/", "m", "o",
      "n", "e", "t", "i", "z", "a", "t", "i", "o", "n", "/", "p", "l", "a",
      "n", "s", "/", "p", "a", "g", "e", ".", "t", "s", "x">>

\* '//@ts-ignore'
TsIgnore ==
    <<"/", "/", "@", "t", "s", "-", "i", "g", "n", "o", "r", "e">>

CreatePlanCall ==
    <<"a", "w", "a", "i", "t", " ", "c", "r", "e", "a", "t", "e", "P", "l",
      "a", "n", "M", "u", "t", "a", "t", "i", "o", "n", ".", "m", "u", "t",
      "a", "t", "e", "A", "s", "y", "n", "c", "(", "{">>

CreatePlanIgnored ==
    <<"a", "w", "a", "i", "t", " ", "c", "r", "e", "a", "t", "e", "P", "l",
      "a", "n", "M", "u", "t", "a", "t", "i", "o", "n", ".", "m", "u", "t",
      "a", "t", "e", "A", "s", "y", "n", "c", "(", NL, " ", " ", " ", " ",
      " ", " ", " ", " ", "/", "/", "@", "t", "s", "-", "i", "g", "n", "o",
      "r", "e", NL, " ", " ", " ", " ", " ", " ", " ", " ", "{">>

CreateVariantCall ==
    <<"c", "r", "e", "a", "t", "e", "V", "a", "r", "i", "a", "n", "t", "M",
      "u", "t", "a", "t", "i", "o", "n", ".", "m", "u", "t", "a", "t", "e",
      "A", "s", "y", "n", "c", "(", "{">>

CreateVariantIgnored ==
    <<"c", "r", "e", "a", "t", "e", "V", "a", "r", "i", "a", "n", "t", "M",
      "u", "t", "a", "t", "i", "o", "n", ".", "m", "u", "t", "a", "t", "e",
      "A", "s", "y", "n", "c", "(", NL, " ", " ", " ", " ", " ", " ", " ",
      " ", "/", "/", "@", "t", "s", "-", "i", "g", "n", "o", "r", "e", NL,
      " ", " ", " ", " ", " ", " ", " ", " ", "{">>

UpdateVariantCall ==
    <<"u", "p", "d", "a", "t", "e", "V", "a", "r", "i", "a", "n", "t", "M",
      "u", "t", "a", "t", "i", "o", "n", ".", "m", "u", "t", "a", "t", "e",
      "A", "s", "y", "n", "c", "(", "{">>

UpdateVariantIgnored ==
    <<"u", "p", "d", "a", "t", "e", "V", "a", "r", "i", "a", "n", "t", "M",
      "u", "t", "a", "t", "i", "o", "n", ".", "m", "u", "t", "a", "t", "e",
      "A", "s", "y", "n", "c", "(", NL, " ", " ", " ", " ", " ", " ", " ",
      " ", "/", "/", "@", "t", "s", "-", "i", "g", "n", "o", "r", "e", NL,
      " ", " ", " ", " ", " ", " ", " ", " ", "{">>

\* the pattern of a literal, every special character escaped
Escaped(literal) == [pre |-> literal, ws |-> FALSE, post |-> <<>>]

\* re.sub(pattern, replacement, s, count=1): the leftmost match only
ReSubFirst(pat, repl, s) ==
    LET hits == {k \in 1..Len(s) : MatchLen(s, k, pat) >= 0}
    IN  IF hits = {} THEN s
        ELSE LET k == CHOOSE h \in hits : \A h2 \in hits : h <= h2
             IN  SubSeq(s, 1, k - 1) \o repl \o SubSeq(s, k + MatchLen(s, k, pat), Len(s))

\* lines 45-55
StepPlansUltimate ==
    /\ script = "ULTIMATE_FIX" /\ pc = "plans"
    /\ IF ~Exists(PlansPath) THEN Raise("FileNotFoundError")
       ELSE LET text == fs[PlansPath].text
            IN  /\ IF Contains(text, CreatePlanCall) /\ ~Contains(text, TsIgnore)
                   THEN LET new_text == Replace(text, CreatePlanCall, CreatePlanIgnored)
                        IN  /\ fs' = WriteText(PlansPath, new_text)
                            /\ writes' = Append(writes, WriteEvent(PlansPath, new_text))
                            /\ printed' = Append(printed, Printed("OK", PlansPath, 0))
                            /\ fixed' = fixed + 1
                   ELSE UNCHANGED <<fs, writes, printed, fixed>>
                /\ file_path' = PlansPath
                /\ content' = text
                /\ pc' = "variants"
                /\ UNCHANGED <<script, raised, fcVars, lines, inserted, ret, env, run>>

\* lines 57-80
StepVariantsUltimate ==
    /\ script = "ULTIMATE_FIX" /\ pc = "variants"
    /\ IF ~Exists(VariantsPath) THEN Raise("FileNotFoundError")
       ELSE LET text == fs[VariantsPath].text
                created == Contains(text, CreateVariantCall)
                text1 == IF created
                         THEN ReSubFirst(Escaped(CreateVariantCall), CreateVariantIgnored, text)
                         ELSE text
                updated == Contains(text1, UpdateVariantCall)
                text2 == IF updated
                         THEN ReSubFirst(Escaped(UpdateVariantCall), UpdateVariantIgnored, text1)
                         ELSE text1
            IN  /\ IF created \/ updated
                   THEN /\ fs' = WriteText(VariantsPath, text2)
                        /\ writes' = Append(writes, WriteEvent(VariantsPath, text2))
                        /\ printed' = Append(printed, Printed("OK", VariantsPath, 0))
                        /\ fixed' = fixed + 1
                   ELSE UNCHANGED <<fs, writes, printed, fixed>>
                /\ file_path' = VariantsPath
                /\ content' = text
                /\ pc' = "done"
                /\ UNCHANGED <<script, raised, fcVars, lines, inserted, ret, env, run>>

\* lines of the plans page and of the variants page
PlansLines ==
    { <<" ", " ">> \o CreatePlanCall, <<"/", "/", " ", "x">>, TsIgnore }

VariantsPageLines ==
    { <<" ", " ">> \o CreateVariantCall,
      <<"a", "w", "a", "i", "t", " ">> \o UpdateVariantCall \o <<" ", "}", ")", ";">>,
      <<"x">> }

\* each page is missing or holds a few lines
InitUltimateFix ==
    /\ InitVarsScript("ULTIMATE_FIX", "plans")
    /\ \E pl \in {Absent} \cup {File(JoinLines(ls)) : ls \in SeqsUpTo(PlansLines, MaxLines)},
          v \in {Absent} \cup {File(JoinLines(ls)) : ls \in SeqsUpTo(VariantsPageLines, MaxLines)} :
          fs = [p \in {PlansPath, VariantsPath} |-> IF p = PlansPath THEN pl ELSE v]

NextUltimateFix == StepPlansUltimate \/ StepVariantsUltimate

SpecUltimateFix == InitUltimateFix /\ [][NextUltimateFix]_vars

-----------------------------------------------------------------------------
(* fix_final_zero.py: the steps that copy the lines of a file into new_lines *)
(* with a marker line before the lines they match.  Modelled: RoleModal      *)
(* (step 8), UserRoleAssignment (step 9) and useSceneMarkers (step 19);      *)
(* steps 12, 14 and 17 are the same loop with other patterns.  None of them  *)
(* tests that the file exists.                                               *)

SceneHookPath ==
    <<"s", "r", "c", "/", "h", "o", "o", "k", "s", "/", "u", "s", "e", "S",
      "c", "e", "n", "e", "M", "a", "r", "k", "e", "r", "s", ".", "t", "s">>

SetSelectedColor ==
    <<"s", "e", "t", "S", "e", "l", "e", "c", "t", "e", "d", "C", "o", "l",
      "o", "r", "(", "c", "o", "l", "o", "r", ")">>

SetSelectedIcon ==
    <<"s", "e", "t", "S", "e", "l", "e", "c", "t", "e", "d", "I", "c", "o",
      "n", "(", "i", "c", "o", "n", ")">>

UseQueryAny ==
    <<"u", "s", "e", "Q", "u", "e", "r", "y", "<", "a", "n", "y", ">", "(",
      "{">>

SetSceneMarkersNull ==
    <<"s", "e", "t", "S", "c", "e", "n", "e", "M", "a", "r", "k", "e", "r",
      "s", "(", "n", "u", "l", "l", ")">>

SetSceneMarkersData ==
    <<"s", "e", "t", "S", "c", "e", "n", "e", "M", "a", "r", "k", "e", "r",
      "s", "(", "d", "a", "t", "a", ")">>

\* the patterns and the inserted line of each step
MarkerSteps ==
    [role |-> [path |-> RoleModalPath, patterns |-> {SetSelectedColor, SetSelectedIcon},
               insert |-> Spaces(10) \o Marker, next |-> "userrole"],
     userrole |-> [path |-> UserRolePath, patterns |-> {UseQueryAny},
                   insert |-> Spaces(4) \o Marker, next |-> "scene_hook"],
     scene_hook |-> [path |-> SceneHookPath,
                     patterns |-> {SetSceneMarkersNull, SetSceneMarkersData},
                     insert |-> Spaces(6) \o Marker, next |-> "done"]]

\* faulty variant of Suppressed: the line is the bare marker
SuppressedExactly(ls, i) == ls[i] = Marker

\* lines 175, 190, 309: '//@ts-expect-error' in lines[i-1], for i >= 1
Suppressed(ls, i) == Contains(ls[i], Marker)

\* lines 172-177: new_lines after the iterations from index i on
RECURSIVE NewLinesFrom(_, _, _, _)
NewLinesFrom(ls, i, st, new_lines) ==
    IF i >= Len(ls) THEN new_lines
    ELSE LET line == ls[i + 1]
             matches == \E p \in st.patterns : Contains(line, p)
             with == IF matches /\ i > 0 /\ ~Suppressed(ls, i)
                     THEN Append(new_lines, st.insert)
                     ELSE new_lines
         IN  NewLinesFrom(ls, i + 1, st, Append(with, line))

\* lines 168-180, 183-195, 303-314: read_text, the loop, write_text, print
MarkerStep(at) ==
    /\ script = "fix_final_zero" /\ pc = at
    /\ LET st == MarkerSteps[at]
       IN  IF ~Exists(st.path) THEN Raise("FileNotFoundError")
           ELSE LET text == fs[st.path].text
                    out == NewLinesFrom(SplitLines(text), 0, st, <<>>)
                    new_text == JoinLines(out)
                IN  /\ fs' = WriteText(st.path, new_text)
                    /\ writes' = Append(writes, WriteEvent(st.path, new_text))
                    /\ printed' = Append(printed, Printed("OK", st.path, 0))
                    /\ fixed' = fixed + 1
                    /\ file_path' = st.path
                    /\ content' = text
                    /\ lines' = out
                    /\ pc' = st.next
                    /\ UNCHANGED <<script, raised, fcVars, inserted, ret, env, run>>

StepRoleModalFinal == MarkerStep("role")

StepUserRoleFinal == MarkerStep("userrole")

StepSceneHook == MarkerStep("scene_hook")

\* the script is started again on the tree the run before left
RunAgainFinalZero ==
    /\ script = "fix_final_zero" /\ pc = "done" /\ run < MaxRuns
    /\ run' = run + 1
    /\ fixed' = 0
    /\ writes' = <<>>
    /\ printed' = <<>>
    /\ pc' = "role"
    /\ UNCHANGED <<fs, script, raised, fcVars, stepVars, ret, env>>

\* lines of a file of the step at: plain, matching, marker, matching and marked
MarkerStepLines(at) ==
    LET st == MarkerSteps[at]
    IN  {<<"x">>, st.insert, Marker}
          \cup {Spaces(2) \o p : p \in st.patterns}
          \cup {p \o <<" ">> \o Marker : p \in st.patterns}

\* one of the three files holds up to MaxLines + 1 such lines, the other two
\* hold one plain line or are missing
InitFinalZero ==
    /\ InitVarsScript("fix_final_zero", "role")
    /\ \E at \in DOMAIN MarkerSteps :
          \E ls \in SeqsUpTo(MarkerStepLines(at), MaxLines + 1) \ {<<>>},
             other \in {Absent, File(<<"x", NL>>)} :
                fs = [p \in {MarkerSteps[a].path : a \in DOMAIN MarkerSteps} |->
                        IF p = MarkerSteps[at].path THEN File(JoinLines(ls)) ELSE other]

NextFinalZero ==
    StepRoleModalFinal \/ StepUserRoleFinal \/ StepSceneHook \/ RunAgainFinalZero

SpecFinalZero == InitFinalZero /\ [][NextFinalZero]_vars

-----------------------------------------------------------------------------
(* The variants page under fix_final_zero.py (step 1) and                    *)
(* fix_specific_141.py (step 1), run one after the other on the same tree.   *)
(* env records the page as it was before the first run.  Neither step tests  *)
(* that the page exists.                                                     *)

\* fix_final_zero.py line 35
MutateAsyncCall ==
    UpdateVariantMutation \o <<".", "m", "u", "t", "a", "t", "e", "A", "s", "y", "n", "c">>

\* fix_final_zero.py lines 37-41: the loop stops at the first insertion
VariantsLinesFinalZero(ls) ==
    LET hits == {i \in 1..(Len(ls) - 1) :
                    Contains(ls[i + 1], MutateAsyncCall) /\ ~Contains(ls[i], Marker)}
    IN  IF hits = {} THEN ls
        ELSE ListInsert(ls, CHOOSE i \in hits : \A j \in hits : i <= j, Indented8Marker)

\* fix_final_zero.py lines 34-42: the text of the page after the step
VariantsFinalZero(text) ==
    IF Contains(text, MutateAsyncCall)
    THEN JoinLines(VariantsLinesFinalZero(SplitLines(text)))
    ELSE text

\* faulty variant of IsUnusedMarker: only a bare marker line counts
IsUnusedMarkerBare(ls, i) ==
    ls[i + 1] = Marker /\ i + 1 < Len(ls) /\ Contains(ls[i + 2], UpdateVariantMutation)

\* fix_specific_141.py line 29, for the line at index i
IsUnusedMarker(ls, i) ==
    Contains(ls[i + 1], Marker) /\ i + 1 < Len(ls) /\ Contains(ls[i + 2], UpdateVariantMutation)

\* fix_specific_141.py lines 26-32: new_lines after the iterations from index i on
RECURSIVE NewLines141From(_, _, _)
NewLines141From(ls, i, new_lines) ==
    IF i >= Len(ls) THEN new_lines
    ELSE NewLines141From(ls, i + 1,
            IF IsUnusedMarker(ls, i) THEN new_lines ELSE Append(new_lines, ls[i + 1]))

\* fix_specific_141.py lines 23-33: the text of the page after the step
VariantsSpecific141(text) == JoinLines(NewLines141From(SplitLines(text), 0, <<>>))

\* fix_final_zero.py lines 33-46
StepVariantsFinalZero ==
    /\ script = "fix_final_zero" /\ pc = "variants"
    /\ IF ~Exists(VariantsPath) THEN Raise("FileNotFoundError")
       ELSE LET text == fs[VariantsPath].text
                new_text == VariantsFinalZero(text)
            IN  /\ IF Contains(text, MutateAsyncCall)
                   THEN /\ fs' = WriteText(VariantsPath, new_text)
                        /\ writes' = Append(writes, WriteEvent(VariantsPath, new_text))
                   ELSE UNCHANGED <<fs, writes>>
                /\ printed' = Append(printed, Printed("OK", VariantsPath, 0))
                /\ fixed' = fixed + 1
                /\ file_path' = VariantsPath
                /\ content' = text
                /\ lines' = SplitLines(new_text)
                /\ pc' = "done"
                /\ UNCHANGED <<script, raised, fcVars, inserted, ret, env, run>>

\* fix_specific_141.py lines 22-35
StepVariantsSpecific141 ==
    /\ script = "fix_specific_141" /\ pc = "variants"
    /\ IF ~Exists(VariantsPath) THEN Raise("FileNotFoundError")
       ELSE LET text == fs[VariantsPath].text
                new_text == VariantsSpecific141(text)
            IN  /\ fs' = WriteText(VariantsPath, new_text)
                /\ writes' = Append(writes, WriteEvent(VariantsPath, new_text))
                /\ printed' = Append(printed, Printed("OK", VariantsPath, 0))
                /\ fixed' = fixed + 1
                /\ file_path' = VariantsPath
                /\ content' = text
                /\ lines' = SplitLines(new_text)
                /\ pc' = "done"
                /\ UNCHANGED <<script, raised, fcVars, inserted, ret, env, run>>

\* the other script is started on the tree this one left
RunOtherScript ==
    /\ script \in {"fix_final_zero", "fix_specific_141"} /\ pc \in {"done", "aborted"}
    /\ script' = IF script = "fix_final_zero" THEN "fix_specific_141" ELSE "fix_final_zero"
    /\ pc' = "variants"
    /\ raised' = "none"
    /\ fixed' = 0
    /\ writes' = <<>>
    /\ printed' = <<>>
    /\ UNCHANGED <<fs, fcVars, stepVars, ret, env, run>>

\* lines of the variants page: plain, marker, the call, the call with a marker
\* on its own line, another use of the mutation
VariantsPairLines ==
    { <<"x">>,
      Indented8Marker,
      Spaces(2) \o MutateAsyncCall \o <<"(">>,
      MutateAsyncCall \o <<" ">> \o Marker,
      UpdateVariantMutation \o <<".", "r">> }

\* either script runs first; the page is missing or holds up to MaxLines + 1 lines
InitVariantsPair ==
    /\ script \in {"fix_final_zero", "fix_specific_141"}
    /\ pc = "variants"
    /\ \E f \in {Absent} \cup
                {File(JoinLines(ls)) : ls \in SeqsUpTo(VariantsPairLines, MaxLines + 1) \ {<<>>}} :
          /\ fs = [p \in {VariantsPath} |-> f]
          /\ env = <<EnvEvent("at_start", VariantsPath, f.text)>>
    /\ raised = "none" /\ fixed = 0 /\ run = 1
    /\ writes = <<>> /\ printed = <<>>
    /\ result_stdout = <<>> /\ result_stderr = <<>> /\ errors = <<>> /\ by_file = <<>>
    /\ file_path = <<>> /\ line_nums = <<>> /\ lines = <<>> /\ todo = <<>>
    /\ content = <<>> /\ inserted = <<>> /\ ret = NoCall

NextVariantsPair == StepVariantsFinalZero \/ StepVariantsSpecific141 \/ RunOtherScript

SpecVariantsPair == InitVariantsPair /\ [][NextVariantsPair]_vars

-----------------------------------------------------------------------------
(* fix_exact_errors.py: steps 1 (notifications page) and 3 (trusted devices  *)
(* page) and the summary.  The other steps are blocks of the same kind on    *)
(* other files: read_text without an exists test, changes, write_text.       *)

\* the status the interpreter exits with: 0 at the end of the script, 1 after
\* an exception nothing caught
ExitStatus == IF raised = "none" THEN 0 ELSE 1

MarkAllOld ==
    <<"a", "w", "a", "i", "t", " ", "m", "a", "r", "k", "A", "l", "l", "A",
      "s", "R", "e", "a", "d", ".", "m", "u", "t", "a", "t", "e", "A", "s",
      "y", "n", "c", "(", ")", ";">>

MarkAllNew ==
    <<"a", "w", "a", "i", "t", " ", "m", "a", "r", "k", "A", "l", "l", "A",
      "s", "R", "e", "a", "d", ".", "m", "u", "t", "a", "t", "e", "A", "s",
      "y", "n", "c", "(", "u", "n", "d", "e", "f", "i", "n", "e", "d", ")",
      ";">>

\* lines 10-19
StepNotificationsExact ==
    /\ script = "fix_exact_errors" /\ pc = "notifications"
    /\ IF ~Exists(NotificationsPath) THEN Raise("FileNotFoundError")
       ELSE LET text == fs[NotificationsPath].text
                new_text == Replace(text, MarkAllOld, MarkAllNew)
            IN  /\ fs' = WriteText(NotificationsPath, new_text)
                /\ writes' = Append(writes, WriteEvent(NotificationsPath, new_text))
                /\ printed' = Append(printed, Printed("OK", NotificationsPath, 0))
                /\ fixed' = fixed + 1
                /\ file_path' = NotificationsPath
                /\ content' = text
                /\ pc' = "trusted_devices"
                /\ UNCHANGED <<script, raised, fcVars, lines, inserted, ret, env, run>>

\* '|| ""', ' || ""', 'last_used', 'as'
OrEmpty == <<"|", "|", " ", "\"", "\"">>
LastUsed == <<"l", "a", "s", "t", "_", "u", "s", "e", "d">>
CreatedAt == <<"c", "r", "e", "a", "t", "e", "d", "_", "a", "t">>
AsWord == <<"a", "s">>

\* lines 40-56: the loop `for i in range(len(lines))` from index i on, where n
\* is the length the list had when the loop began
RECURSIVE TrustLoopFrom(_, _, _)
TrustLoopFrom(ls, i, n) ==
    IF i >= n THEN ls
    ELSE LET a == IF /\ \/ Contains(ls[i + 1], DeviceIconsOld)
                        \/ Contains(ls[i + 1], DeviceNamesOld)
                     /\ i > 0 /\ ~Contains(ls[i], Marker)
                  THEN ListInsert(ls, i, Spaces(18) \o Marker)
                  ELSE ls
             b == IF /\ \/ Contains(a[i + 1], SetViewingOld)
                        \/ Contains(a[i + 1], SetTrustingOld)
                     /\ ~Contains(a[i + 1], AsWord)
                     /\ i > 0 /\ ~Contains(a[i], Marker)
                  THEN ListInsert(a, i, Spaces(14) \o Marker)
                  ELSE a
             c == IF /\ Contains(b[i + 1], OrEmpty)
                     /\ Contains(b[i + 1], LastUsed) \/ Contains(b[i + 1], CreatedAt)
                  THEN [b EXCEPT ![i + 1] = Replace(@, <<" ">> \o OrEmpty, <<>>)]
                  ELSE b
         IN  TrustLoopFrom(c, i + 1, n)

\* lines 34-60
StepTrustedDevicesExact ==
    /\ script = "fix_exact_errors" /\ pc = "trusted_devices"
    /\ IF ~Exists(TrustPath) THEN Raise("FileNotFoundError")
       ELSE LET text == fs[TrustPath].text
                ls == SplitLines(text)
                out == TrustLoopFrom(ls, 0, Len(ls))
                new_text == JoinLines(out)
            IN  /\ fs' = WriteText(TrustPath, new_text)
                /\ writes' = Append(writes, WriteEvent(TrustPath, new_text))
                /\ printed' = Append(printed, Printed("OK", TrustPath, 0))
                /\ fixed' = fixed + 1
                /\ file_path' = TrustPath
                /\ content' = text
                /\ lines' = out
                /\ pc' = "summary"
                /\ UNCHANGED <<script, raised, fcVars, inserted, ret, env, run>>

\* the last lines of the script
PrintFilesFixed ==
    /\ script = "fix_exact_errors" /\ pc = "summary"
    /\ printed' = Append(printed, Printed("files fixed", <<>>, fixed))
    /\ pc' = "done"
    /\ UNCHANGED <<fs, script, raised, fixed, writes, fcVars, stepVars, ret, env, run>>

\* lines of the trusted devices page
TrustExactLines ==
    { <<"x">>,
      <<"{">> \o DeviceIconsOld \o <<"}">>,
      SetViewingOld \o <<";">>,
      <<" ", " ">> \o Marker,
      LastUsed \o <<" ">> \o OrEmpty }

\* each page is missing or holds a few lines
InitFixExact ==
    /\ InitVarsScript("fix_exact_errors", "notifications")
    /\ \E nf \in {Absent, File(<<"x", NL>> \o MarkAllOld), File(<<"x">>)},
          t \in {Absent} \cup {File(JoinLines(ls)) : ls \in SeqsUpTo(TrustExactLines, MaxLines + 1)} :
          fs = [p \in {NotificationsPath, TrustPath} |-> IF p = NotificationsPath THEN nf ELSE t]

NextFixExact == StepNotificationsExact \/ StepTrustedDevicesExact \/ PrintFilesFixed

SpecFixExact == InitFixExact /\ [][NextFixExact]_vars

-----------------------------------------------------------------------------
(* Properties of the insertion pass of final_cleanup.py *)

\* the pass of file_path has just written the file
Written ==
    /\ script = "final_cleanup" /\ pc = "loop"
    /\ writes # <<>> /\ Last(writes).path = file_path

\* the line sequence the pass read, the one it wrote, its diagnostic line numbers
ReadSeq == SplitLines(content)
WrittenSeq == SplitLines(fs[file_path].text)
DiagSet == Range(line_nums)

\* a line made of spaces followed by the marker and nothing else
IsSuppressionLine(l) ==
    \E n \in 0..Len(l) : l = Spaces(n) \o Marker

\* a line that carries the marker behind any leading whitespace
CarriesMarker(l) == SubSeq(l, LeadingWhitespace(l) + 1, Len(l)) = Marker

ShiftOf(S, p) == Cardinality({L \in S : L <= p})

NoMarkerLine(X) == \A i \in 1..Len(X) : X[i] # Marker

InRangeNoMarker ==
    LET X == ReadSeq IN
    /\ \A L \in DiagSet : 1 <= L /\ L <= Len(X)
    /\ NoMarkerLine(X)

\* C1: with all diagnostic line numbers in 1..len(X) and no line of X equal to
\* the marker, the written sequence is X with one suppression line inserted
\* immediately before each X[L], L in S: the original line p ends at position
\* p + |{L in S : L <= p}| and the position before each X[L] holds a
\* suppression line
C1_InsertsBeforeEachLine ==
    (Written /\ InRangeNoMarker) =>
        LET X == ReadSeq
            W == WrittenSeq
            S == DiagSet
        IN  /\ Len(W) = Len(X) + Cardinality(S)
            /\ \A p \in 1..Len(X) : W[p + ShiftOf(S, p)] = X[p]
            /\ \A L \in S : IsSuppressionLine(W[L + ShiftOf(S, L) - 1])

C1_Witness ==
    /\ Written /\ InRangeNoMarker
    /\ Cardinality(DiagSet) = 2
    /\ Len(ReadSeq) >= 3

\* C2: the line count after the pass is the line count before it plus the
\* number of distinct line numbers at which the pass inserted, and no line
\* number is inserted at twice
C2_CountGrowsByDistinctInsertions ==
    Written =>
        /\ Len(WrittenSeq) = Len(ReadSeq) + Cardinality(Range(inserted))
        /\ Len(inserted) = Cardinality(Range(inserted))

C2_Witness ==
    /\ Written
    /\ Len(line_nums) > Cardinality(DiagSet)
    /\ inserted # <<>>
    /\ \E i, j \in 1..Len(line_nums) : i # j /\ line_nums[i] = line_nums[j] /\ line_nums[i] \in Range(inserted)

\* C3 (as claimed): no insertion is made at a line L whose preceding line
\* carries the marker, whatever the indentation of that marker line
C3_SkipsWhenPrecedingCarriesMarker ==
    Written =>
        LET X == ReadSeq
        IN  \A L \in Range(inserted) : ~(L >= 2 /\ CarriesMarker(X[L - 1]))

\* the number of lines of a text: a text that ends with a newline has as many
\* lines as newline characters
LineCount(t) ==
    LET n == Cardinality({k \in 1..Len(t) : t[k] = NL})
    IN  IF t = <<>> \/ Last(t) = NL THEN n ELSE n + 1

\* C6 (as claimed): a line number below 1 or above the file's line count
\* causes no insertion
C6_OutOfRangeNotInserted ==
    Written =>
        \A L \in Range(inserted) : 1 <= L /\ L <= LineCount(content)

\* C8 (as claimed): a file is written only when the content computed for it
\* differs from the content read
C8_WrittenOnlyIfChanged ==
    \A i \in 1..Len(writes) : writes[i].text # writes[i].before

\* C5 (as claimed, either way of counting positions): with diagnostics at
\* {12, 47, 47, 5} in a file of at least 47 lines none of which is the marker,
\* the line count grows by 3 and the original line 12 is found one position
\* further, directly behind an inserted suppression line
C5_OriginalLine12OnePositionFurther ==
    (Written /\ DiagSet = {5, 12, 47} /\ Len(line_nums) = 4) =>
        LET X == ReadSeq
            W == WrittenSeq
        IN  (Len(X) >= 47 /\ NoMarkerLine(X)) =>
                /\ Len(W) = Len(X) + 3
                /\ \/ W[13] = X[12] /\ IsSuppressionLine(W[12])
                   \/ W[14] = X[13] /\ IsSuppressionLine(W[13])

\* C5 (amended): with diagnostics at {12, 47, 47, 5} in a file of at least 47
\* lines none of which is the marker, the line count grows by exactly 3 and
\* the original line 12 is found at line 14, directly behind an inserted
\* suppression line at line 13
C5_OriginalLine12AtLine14 ==
    (Written /\ DiagSet = {5, 12, 47} /\ Len(line_nums) = 4) =>
        LET X == ReadSeq
            W == WrittenSeq
        IN  (Len(X) >= 47 /\ NoMarkerLine(X)) =>
                /\ Len(W) = Len(X) + 3
                /\ W[14] = X[12]
                /\ IsSuppressionLine(W[13])
                /\ W[12] = X[11]

C5_Witness ==
    /\ Written /\ line_nums = <<12, 47, 47, 5>>
    /\ LET X == ReadSeq IN Len(X) >= 47 /\ NoMarkerLine(X)
    /\ inserted = <<47, 12, 5>>

-----------------------------------------------------------------------------
(* Properties of the parser of final_cleanup.py *)

AllDigits(s, a, b) == a <= b /\ \A k \in a..b : IsDigit(s[k])

\* the locations (path, line) a line of the shape
\* <path>(<line>,<column>): <message> stands for
ShapeLocations(l) ==
    { <<SubSeq(l, 1, p - 1), ParseInt(SubSeq(l, p + 1, q - 1))>> :
        <<p, q>> \in { pq \in (2..Len(l)) \X (2..Len(l)) :
            /\ l[pq[1]] = "(" /\ l[pq[2]] = ","
            /\ AllDigits(l, pq[1] + 1, pq[2] - 1)
            /\ \E r \in (pq[2] + 2)..(Len(l) - 2) :
                  /\ AllDigits(l, pq[2] + 1, r - 1)
                  /\ l[r] = ")" /\ l[r + 1] = ":" /\ l[r + 2] = " " } }

OutputLines == SelectSeq(SplitLines(result_stderr), LAMBDA l : l # <<>>)

\* a line of the shape whose path is src/ followed by a name
ShapedUnderSrc(l) ==
    /\ StartsWith(l, SrcPrefix) /\ Len(l) > 4 /\ l[5] \notin {"(", ")"}
    /\ ShapeLocations(l) # {}

\* C7 (as claimed, for paths under src/): when every line of the output is of
\* the shape <path>(<line>,<column>): <message>, the parser emits one location
\* (<path>, <line>) per line, in output order, whatever characters the path
\* contains
C7_EveryShapedLineParsed ==
    (script = "final_cleanup" /\ pc # "parse") =>
        LET out == OutputLines
        IN  (\A i \in 1..Len(out) : ShapedUnderSrc(out[i])) =>
                /\ Len(errors) = Len(out)
                /\ \A i \in 1..Len(errors) : errors[i] \in ShapeLocations(out[i])

-----------------------------------------------------------------------------
(* Properties of the single-operation helpers *)

\* the find string, or the pattern, of the last call occurs in the text t
Occurs(t) ==
    IF ret.fn \in {"safe_fix", "fix"} THEN Contains(t, ret.find)
    ELSE \E i \in 1..Len(t) : MatchLen(t, i, ret.find) >= 0

\* C9: when the find string does not occur in the file (the pattern has no
\* match), safe_fix, fix and regex_fix return False, do not write the file, and
\* the file is what it was
C9_NoMatchNoWrite ==
    (script = "helpers" /\ ret.n > 0 /\ ret.before.exists /\ ~Occurs(ret.before.text)) =>
        /\ ret.value = FALSE
        /\ ret.wrote = FALSE
        /\ fs[ret.path] = ret.before
        /\ Len(writes) = ret.writes_before

C9_Witness ==
    /\ script = "helpers" /\ ret.n > 0 /\ ret.before.exists /\ ~Occurs(ret.before.text)
    /\ ret.before.text # <<>>
    /\ ret.fn = "regex_fix"

-----------------------------------------------------------------------------
(* Properties of fix_to_zero.py *)

Descending(ns) == \A i, j \in 1..Len(ns) : i < j => ns[i] > ns[j]

\* C4 (as claimed): the insertions at the hard-coded line numbers of the
\* UserRoleAssignment step are applied from the highest line number to the
\* lowest, and each inserted marker stands immediately before the line that
\* carried that number when the file was read
C4_MarkersBeforeTheNumberedLines ==
    (script = "fix_to_zero" /\ pc # "aborted" /\ file_path = UserRolePath) =>
        LET X == SplitLines(content)
            W == SplitLines(fs[UserRolePath].text)
        IN  /\ Descending(inserted)
            /\ \A L \in Range(inserted) :
                  \E k \in 1..(Len(W) - 1) : W[k] = Indented8Marker /\ W[k + 1] = X[L]

\* C10 (as claimed): no step raises, whichever target files are missing
C10_MissingFileNeverRaises ==
    script = "fix_to_zero" => raised = "none"

-----------------------------------------------------------------------------
(* Properties of the scripts when the file system fails *)

\* C11 (as claimed): a read or write failure on one file never ends the run
\* while files of the run are still to be processed
C11_FailureContainedToItsFile ==
    (script = "final_cleanup" /\ pc = "aborted") => by_file = <<>>

\* C12 (as claimed): a file whose write failed is never printed or counted as
\* fixed
C12_FailedWriteNotReportedFixed ==
    \A i \in 1..Len(env) :
        env[i].kind = "write_failed" =>
            \A j \in 1..Len(printed) :
                ~(printed[j].what = "Fixed" /\ printed[j].path = env[i].path)

-----------------------------------------------------------------------------
(* Properties of a second run *)

\* C13 (as claimed): a second run of the script on the tree the first run left
\* changes the content of no file and reports a count of zero
C13_SecondRunChangesNothing ==
    (script = "FINAL_FIX_ALL" /\ run = 2 /\ pc = "done") =>
        /\ \A i \in 1..Len(writes) : writes[i].text = writes[i].before
        /\ Last(printed).count = 0

-----------------------------------------------------------------------------
(* Properties of the list-based helpers *)

\* a call of a helper that reports (apply_replacements, fix_file) with a list
\* of one replacement has returned
SingleReplaceReturned ==
    /\ script = "lists" /\ pc = "returned"
    /\ ret.fn # "fix" /\ Len(ret.list) = 1 /\ ret.before.exists

\* C14 (as claimed): a literal replace applied to the content it produced
\* leaves that content unchanged and reports a no-op
C14_LiteralReplaceIdempotent ==
    (SingleReplaceReturned /\ run = 2) =>
        /\ fs[ret.path].text = ret.before.text
        /\ ret.value = FALSE
        /\ ret.wrote = FALSE

\* the text after the replacements reps, applied one after the other from the
\* first, each to the result of the one before
RECURSIVE ApplyInOrder(_, _)
ApplyInOrder(text, reps) ==
    IF reps = <<>> THEN text
    ELSE ApplyInOrder(Replace(text, Head(reps)[1], Head(reps)[2]), Tail(reps))

\* the replacements of the list the loop has been through
Applied == SubSeq(ret.list, 1, Len(ret.list) - Len(todo))

\* C16: in the list-based helpers the in-memory content is, after each
\* iteration, the text read with the replacements so far applied in list
\* order, each on the output of the previous one; when the helper has returned
\* the content on disk is the in-memory content after the last replacement
C16_ListOrderThenDisk ==
    (script = "lists" /\ pc \in {"replace", "returned"} /\ ret.before.exists) =>
        /\ content = ApplyInOrder(ret.before.text, Applied)
        /\ pc = "returned" => fs[ret.path].text = content

C16_Witness ==
    /\ script = "lists" /\ pc = "returned" /\ ret.before.exists
    /\ Len(ret.list) = 2 /\ ret.wrote
    /\ content # ApplyInOrder(ret.before.text, ReverseOrder(ret.list))
    /\ content # ApplyInOrder(ret.before.text, <<ret.list[1]>>)
    /\ content # ApplyInOrder(ret.before.text, <<ret.list[2]>>)

-----------------------------------------------------------------------------
(* Properties of the count a run reports *)

\* the files whose content a write of the run changed
ModifiedFiles ==
    {writes[i].path : i \in {j \in 1..Len(writes) : writes[j].text # writes[j].before}}

\* C15 (as claimed): the count the run prints at its end is the number of
\* distinct files whose content the run modified
C15_CountIsFilesModified ==
    (script = "final_cleanup" /\ pc = "done") =>
        Last(printed).count = Cardinality(ModifiedFiles)

-----------------------------------------------------------------------------
(* Properties of the replacements *)

\* C17 (as claimed): when the find string occurs in the file, one application
\* of the replacement replaces every occurrence of it, not only the first
C17_EveryOccurrenceReplaced ==
    (script = "ULTIMATE_FIX" /\ pc = "done" /\ Contains(content, CreateVariantCall)) =>
        fs[VariantsPath].text =
            Replace(Replace(content, CreateVariantCall, CreateVariantIgnored),
                    UpdateVariantCall, UpdateVariantIgnored)

-----------------------------------------------------------------------------
(* Properties of concurrent runs *)

\* the other run wrote the file of the current pass after this run read it
OtherRunWrote ==
    \E i \in 1..Len(env) : env[i].kind = "other_run_write" /\ env[i].path = file_path

\* C18: when another run writes the file between this run's read and this
\* run's write, this run's write overwrites it: the file ends as the result
\* of this run's pass on the content this run read, the other run's change is
\* lost
C18_LostUpdate ==
    (Written /\ OtherRunWrote) =>
        fs[file_path].text = PassText(content, line_nums)

C18_Witness ==
    /\ Written
    /\ \E i \in 1..Len(env) :
          /\ env[i].kind = "other_run_write" /\ env[i].path = file_path
          /\ env[i].text # content
          /\ fs[file_path].text # PassText(env[i].text, line_nums)
          /\ Len(SplitLines(fs[file_path].text)) < Len(SplitLines(PassText(env[i].text, line_nums)))

-----------------------------------------------------------------------------
(* Properties of the insertion pass across files *)

\* the line numbers of the diagnostics of the file p, in output order
OwnLineNums(p) ==
    LET own == SelectSeq(errors, LAMBDA e : e[1] = p)
    IN  [i \in 1..Len(own) |-> own[i][2]]

\* C19: a step of the insertion pass changes no file but the one it is
\* processing, and the content it writes for that file is a function of that
\* file's content and of that file's own diagnostic line numbers, whatever the
\* other files, their diagnostics and the order of processing
C19_PassOfAFileIndependent ==
    [][\A p \in DOMAIN fs :
          fs'[p] # fs[p] =>
              /\ p = file_path
              /\ fs'[p].text = PassText(fs[p].text, OwnLineNums(p))]_vars

C19_Witness ==
    /\ Written /\ Len(writes) = 2
    /\ writes[1].path # writes[2].path
    /\ writes[1].text # writes[1].before
    /\ writes[2].text # writes[2].before
    /\ writes[2].path = PathA
    /\ fs[PathB] = File(writes[1].text)

-----------------------------------------------------------------------------
(* Properties of the checker's output streams *)

\* C20 (as claimed): a diagnostic line the checker wrote on either of its
\* output streams yields a location
C20_BothStreamsYieldLocations ==
    (script = "final_cleanup" /\ pc # "parse") =>
        LET out == SplitLines(result_stdout) \o SplitLines(result_stderr)
        IN  \A k \in 1..Len(out) :
                ParseLine(out[k]) # <<>> =>
                    \E i \in 1..Len(errors) : errors[i] = ParseLine(out[k])[1]

-----------------------------------------------------------------------------
(* Properties of a failing write *)

\* C21 (as claimed): when the pass of a file fails before or during its
\* write, the file holds the content it had when the pass began
C21_FailedWriteLeavesFile ==
    (script = "final_cleanup" /\ pc = "aborted" /\ Last(env).kind = "write_failed") =>
        fs[file_path].text = content

-----------------------------------------------------------------------------
(* Properties of the end of a run *)

\* C22 (as claimed): a run ends with exit status zero, whichever target files
\* are missing
C22_ExitStatusZero ==
    (script = "fix_exact_errors" /\ pc \in {"done", "aborted"}) => ExitStatus = 0

-----------------------------------------------------------------------------
(* Properties of the trusted devices step of fix_exact_errors.py *)

\* a line the step is to suppress: it indexes deviceIcons or deviceNames by
\* device.device_type, or calls setViewingDevice(device) or
\* setTrustingDevice(device) without a cast
NeedsMarker(l) ==
    \/ Contains(l, DeviceIconsOld)
    \/ Contains(l, DeviceNamesOld)
    \/ /\ Contains(l, SetViewingOld) \/ Contains(l, SetTrustingOld)
       /\ ~Contains(l, AsWord)

\* C27 (as claimed): after the step every such line of the file other than
\* the first is immediately preceded by a line containing the marker
C27_EveryMatchingLinePreceded ==
    (script = "fix_exact_errors" /\ pc \in {"summary", "done"}) =>
        LET W == SplitLines(fs[TrustPath].text)
        IN  \A k \in 2..Len(W) : NeedsMarker(W[k]) => Contains(W[k - 1], Marker)

-----------------------------------------------------------------------------
(* Properties of the tree *)

\* C23 (as claimed): no step of a run creates a file or a directory that was
\* not there, or removes one that was
C23_NoFileCreatedOrRemoved ==
    [][\A p \in DOMAIN fs : fs'[p].exists <=> fs[p].exists]_vars

\* C24 (as claimed): within one run a file is written at most once, also when
\* several operations of the run target it
C24_WrittenAtMostOncePerRun ==
    script = "FINAL_FIX_ALL" =>
        \A i, j \in 1..Len(writes) : writes[i].path = writes[j].path => i = j

-----------------------------------------------------------------------------
(* The guard and the inserted line of final_cleanup.py *)

\* C25: for a line number L within 1..len(lines) the insertion is skipped
\* exactly when line L-1 or line L is the marker itself, without indentation;
\* otherwise exactly one line is inserted before line L, as many spaces as
\* line L has leading whitespace characters followed by the marker
C25_SkippedExactlyOnBareMarker ==
    Written =>
        LET X == ReadSeq
            W == WrittenSeq
            S == {L \in DiagSet : 1 <= L /\ L <= Len(X)}
            Ins == Range(inserted)
        IN  /\ Ins \subseteq S
            /\ \A L \in S : L \notin Ins <=> (X[L] = Marker \/ (L >= 2 /\ X[L - 1] = Marker))
            /\ Len(W) = Len(X) + Cardinality(Ins)
            /\ \A L \in Ins :
                  LET before == Cardinality({K \in Ins : K < L})
                  IN  /\ W[L + before] = Spaces(LeadingWhitespace(X[L])) \o Marker
                      /\ W[L + before + 1] = X[L]

C25_Witness ==
    /\ Written
    /\ LET X == ReadSeq
       IN  /\ Len(X) >= 2
           /\ X[2] = Marker /\ X[1] # Marker /\ LeadingWhitespace(X[1]) = 2
           /\ DiagSet = {1, 2}
           /\ inserted = <<1>>

-----------------------------------------------------------------------------
(* The useDownloads step of fix_to_zero.py *)

\* line k of the file as read matches and the line tested for it (the line
\* before it; for the first line, the line itself) holds no marker
DownloadsNeeds(X, k) ==
    /\ Contains(X[k], DotSome) \/ Contains(X[k], DotStatus)
    /\ ~Contains(X[IF k = 1 THEN 1 ELSE k - 1], Marker)

\* C26: the loop of the useDownloads step ends (the list never grows beyond
\* twice the lines read, and the index advances at every iteration), and the
\* file then holds the lines read, in order, with exactly one inserted marker
\* line before every matching line whose preceding line has no marker
C26_DownloadsLoopEndsWithOneMarkerEach ==
    (script = "fix_to_zero" /\ pc \in {"downloads_loop", "summary", "done"} /\ file_path = DownloadsPath) =>
        LET X == SplitLines(content)
            N == {k \in 1..Len(X) : DownloadsNeeds(X, k)}
        IN  /\ todo <= Len(lines)
            /\ Len(lines) <= 2 * Len(X)
            /\ pc \in {"summary", "done"} =>
                  LET W == SplitLines(fs[DownloadsPath].text)
                  IN  /\ Len(W) = Len(X) + Cardinality(N)
                      /\ \A k \in 1..Len(X) :
                            LET at == k + Cardinality({j \in N : j <= k})
                            IN  /\ W[at] = X[k]
                                /\ k \in N => W[at - 1] = Indented4Marker

C26_Witness ==
    /\ script = "fix_to_zero" /\ pc = "done" /\ file_path = DownloadsPath
    /\ LET X == SplitLines(content)
       IN  /\ Len(X) = 3
           /\ DownloadsNeeds(X, 2) /\ DownloadsNeeds(X, 3)
           /\ Len(inserted) = 2
           /\ Len(SplitLines(fs[DownloadsPath].text)) = 5

-----------------------------------------------------------------------------
(* The marker steps of fix_final_zero.py *)

\* the step that writes path
MarkerStepOf(path) == CHOOSE at \in DOMAIN MarkerSteps : MarkerSteps[at].path = path

\* line k >= 2 of X matches a pattern of the step and line k - 1 holds no marker
MarkerStepNeeds(X, k, st) ==
    /\ k >= 2
    /\ \E p \in st.patterns : Contains(X[k], p)
    /\ ~Contains(X[k - 1], Marker)

\* C28: a marker step writes the lines it read, in order and unchanged, with
\* exactly one marker line before every matching line that is not the first
\* line and whose preceding line holds no marker; run on its own output (the
\* second run of the script) it writes the text it read
C28_MarkerStepsInsertOnceAndIdempotent ==
    script = "fix_final_zero" =>
        \A n \in 1..Len(writes) :
            LET e == writes[n]
                st == MarkerSteps[MarkerStepOf(e.path)]
                X == SplitLines(e.before)
                W == SplitLines(e.text)
                N == {k \in 1..Len(X) : MarkerStepNeeds(X, k, st)}
            IN  /\ Len(W) = Len(X) + Cardinality(N)
                /\ \A k \in 1..Len(X) :
                      LET at == k + Cardinality({j \in N : j <= k})
                      IN  /\ W[at] = X[k]
                          /\ k \in N => W[at - 1] = st.insert
                /\ run > 1 => e.text = e.before

C28_Witness ==
    /\ script = "fix_final_zero" /\ run = 2 /\ pc = "done"
    /\ \E n \in 1..Len(writes) :
          /\ writes[n].path = RoleModalPath
          /\ writes[n].text = writes[n].before
          /\ LET W == SplitLines(writes[n].text)
             IN  /\ Len(W) = 3
                 /\ Contains(W[1], SetSelectedColor)
                 /\ W[2] = Spaces(10) \o Marker
                 /\ Contains(W[3], SetSelectedIcon)

-----------------------------------------------------------------------------
(* The variants page under fix_final_zero.py and fix_specific_141.py *)

\* both steps leave the text as it is
BothLeaveUnchanged(text) ==
    VariantsFinalZero(text) = text /\ VariantsSpecific141(text) = text

\* the text has a line with the mutateAsync call after its first line
CallAfterFirstLine(text) ==
    LET X == SplitLines(text)
    IN  \E k \in 2..Len(X) : Contains(X[k], MutateAsyncCall)

\* the text has a line with the mutateAsync call and no marker, somewhere
\* after a line without a marker
UnmarkedCallAfterUnmarkedLine(text) ==
    LET X == SplitLines(text)
    IN  \E k \in 2..Len(X) :
           /\ Contains(X[k], MutateAsyncCall) /\ ~Contains(X[k], Marker)
           /\ \E j \in 1..(k - 1) : ~Contains(X[j], Marker)

\* C29, as stated: when the page has a line with the mutateAsync call at an
\* index > 0 before the first run, the runs of the two scripts in turn never
\* leave a page that both steps leave unchanged
C29_NeverSettlesAsStated ==
    (Exists(VariantsPath) /\ CallAfterFirstLine(env[1].text)) =>
        ~BothLeaveUnchanged(fs[VariantsPath].text)

\* C29, amended: when the page has, before the first run, a line with the
\* mutateAsync call and no marker somewhere after a line without a marker,
\* the runs of the two scripts in turn never leave a page that both steps
\* leave unchanged
C29_NeverSettles ==
    (Exists(VariantsPath) /\ UnmarkedCallAfterUnmarkedLine(env[1].text)) =>
        ~BothLeaveUnchanged(fs[VariantsPath].text)

C29_Witness ==
    /\ script = "fix_specific_141" /\ pc = "done"
    /\ UnmarkedCallAfterUnmarkedLine(env[1].text)
    /\ ~Contains(env[1].text, Marker)
    /\ Len(writes) = 1
    /\ Contains(writes[1].before, Marker)
    /\ fs[VariantsPath].text = env[1].text

====
